---- MODULE Spec2Model ----
(***************************************************************************)
(* A model of the race strategy predictor of visionf1-backend              *)
(* (src/visionf1/ml/strategy_predictor.py) and of the request handler that *)
(* calls it (src/visionf1/router/strategy_router.py).                      *)
(*                                                                         *)
(* Numbers.  Stint lengths, laps, quantiles and pit laps are integers as   *)
(* in the code.  Race times are integers counting milliseconds (the        *)
(* degradation rates 0.040, 0.025 and 0.015 s/lap are 40, 25 and 15 ms).   *)
(* The raw output of a survival model is a float: it is modelled in half   *)
(* laps (an integer h stands for h/2), so that round() has ties to break.  *)
(* Priors and scores are positive reals: they are modelled on the grid of  *)
(* the powers of two, see Score.  Probabilities are exact fractions.       *)
(***************************************************************************)
EXTENDS Integers, Sequences, FiniteSets, TLC

VARIABLES
    initialized,      \* CachedStrategyPredictor._initialized
    surv,             \* self.surv: compound -> survival model bundle
    clf,              \* self.clf: the next-compound classifier
    circuit_defaults, \* self.circuit_defaults: circuit -> metadata
    qcache,           \* self._qcache: key -> (q25, q50, q75)
    qcache_hits,      \* self._qcache_hits: key -> number of hits
    rng,              \* self.rng: number of draws taken since seeding
    pc,               \* position inside predict(): idle, sim, rank
    req,              \* arguments of the last predict() call
    enumerated,       \* predict: the templates of lines 330-333
    templates,        \* predict: the gated templates
    ti,               \* predict: index of the template being simulated
    sim,              \* _simulate_template: s, times, pit_laps_all, best_time
    results,          \* predict: candidates built so far
    generated,        \* predict: candidates with prob set, before the sort
    returned,         \* what the last predict() call returned
    outcome,          \* none, ok, not_ready: how the last call ended
    calls,            \* number of predict() calls made
    probe             \* a call of one pure function: its arguments and result

vars == <<initialized, surv, clf, circuit_defaults, qcache, qcache_hits, rng,
          pc, req, enumerated, templates, ti, sim, results, generated,
          returned, outcome, calls, probe>>

-----------------------------------------------------------------------------
(* Bounds of the model. *)

\* Largest total_laps the circuit metadata of the model holds.
MaxLaps == 5
\* Simulation runs per template (the code passes sims=260).
Sims == 2
\* predict() calls in one behaviour.
MaxCalls == 1
\* Largest quantile handed to _durability_ok on its own.
MaxQ == 66
\* Longest score vector, and largest binary exponent of a score, handed to
\* the normalisation of line 378 on its own.
MaxScores == 3
MaxExp == 2
\* The lookups of the quantile cache followed one by one.
MaxLookups == 4
\* The longest template _template_prior is applied to.
MaxTplLen == 3
\* The recorded times the early-stop test is applied to.
MaxTimes == 3
\* initialize() calls in one behaviour.
MaxInits == 3

-----------------------------------------------------------------------------
(* Arithmetic helpers. *)

Max(a, b) == IF a >= b THEN a ELSE b

Min(a, b) == IF a <= b THEN a ELSE b

Range(s) == {s[i] : i \in 1..Len(s)}

RECURSIVE SumSeq(_)
SumSeq(s) == IF s = <<>> THEN 0 ELSE Head(s) + SumSeq(Tail(s))

\* Python's round() on a float given in halves: ties go to the even integer.
RoundHalfEven(h) ==
    IF h % 2 = 0 THEN h \div 2
    ELSE LET f == (h - 1) \div 2 IN IF f % 2 = 0 THEN f ELSE f + 1

\* sorted() of three numbers.
Sort3(a, b, c) ==
    LET lo == Min(a, Min(b, c))
        hi == Max(a, Max(b, c))
    IN <<lo, a + b + c - lo - hi, hi>>

\* Stable insertion of x into an ascending sequence.
RECURSIVE InsertAsc(_, _)
InsertAsc(s, x) ==
    IF s = <<>> THEN <<x>>
    ELSE IF x < Head(s) THEN <<x>> \o s
    ELSE <<Head(s)>> \o InsertAsc(Tail(s), x)

RECURSIVE SortAsc(_)
SortAsc(s) == IF s = <<>> THEN <<>> ELSE InsertAsc(SortAsc(Tail(s)), Head(s))

\* Floor of the square root of v, known to lie in lo..hi.
RECURSIVE IsqrtIn(_, _, _)
IsqrtIn(v, lo, hi) ==
    IF lo >= hi THEN lo
    ELSE LET mid == (lo + hi + 1) \div 2
         IN IF mid * mid <= v THEN IsqrtIn(v, mid, hi)
            ELSE IsqrtIn(v, lo, mid - 1)

Isqrt(v) == IsqrtIn(v, 0, 40000)

-----------------------------------------------------------------------------
(* Constants and defaults, strategy_predictor.py lines 19-26. *)

ALPHA_HISTORICAL_PRIOR == 3

\* BETA_TIME_PRIOR = 0.4, in thousandths.
BETA_TIME_PRIOR == 400

MAX_LEN_BY_COMPOUND == ("SOFT" :> 20) @@ ("MEDIUM" :> 32) @@ ("HARD" :> 48)

DURA_OVERRIDES ==
    ("Monaco" :> (("SOFT" :> 30) @@ ("MEDIUM" :> 40) @@ ("HARD" :> 55))) @@
    ("Zandvoort" :> (("SOFT" :> 28) @@ ("MEDIUM" :> 38) @@ ("HARD" :> 54)))

\* MAX_LEN_BY_COMPOUND.get(compound, 60)
DefaultMaxLen == 60

-----------------------------------------------------------------------------
(* _get_circuit_params.  Times are in milliseconds, abrasion in            *)
(* thousandths; total_laps is an integer of the metadata, which int()      *)
(* leaves as it is.                                                        *)

\* Defaults of another race distance.
DefaultMetaShort ==
    [total_laps |-> 50, pit_loss |-> 20000, base_pace_s |-> 100000]

DefaultMeta == [total_laps |-> 60, pit_loss |-> 20000, base_pace_s |-> 100000]

GetCircuitParams(defaults, circuit) ==
    LET meta == IF circuit \in DOMAIN defaults THEN defaults[circuit]
                ELSE DefaultMeta
    IN [total_laps |-> meta.total_laps,
        pit_loss |-> meta.pit_loss,
        base_pace_s |-> meta.base_pace_s,
        abrasion |-> 500]

-----------------------------------------------------------------------------
(* _durability_ok. *)

\* The lookup with the generic table first.
MaxLenGenericFirst(compound, circuit) ==
    IF compound \in DOMAIN MAX_LEN_BY_COMPOUND
    THEN MAX_LEN_BY_COMPOUND[compound]
    ELSE IF circuit \in DOMAIN DURA_OVERRIDES
            /\ compound \in DOMAIN DURA_OVERRIDES[circuit]
         THEN DURA_OVERRIDES[circuit][compound]
         ELSE DefaultMaxLen

MaxLenFor(compound, circuit) ==
    IF circuit \in DOMAIN DURA_OVERRIDES
       /\ compound \in DOMAIN DURA_OVERRIDES[circuit]
    THEN DURA_OVERRIDES[circuit][compound]
    ELSE IF compound \in DOMAIN MAX_LEN_BY_COMPOUND
         THEN MAX_LEN_BY_COMPOUND[compound]
         ELSE DefaultMaxLen

\* A gate that lets every triple through.
DurabilityAlwaysOk(compound, q25, q50, q75, circuit) == TRUE

DurabilityOk(compound, q25, q50, q75, circuit) ==
    LET max_len == MaxLenFor(compound, circuit)
        iqr == q75 - q25
    IN q50 <= max_len /\ iqr <= max_len

-----------------------------------------------------------------------------
(* _windows_to_stints. *)

\* cuts with the loop of lines 104-106 applied from index i on.
RECURSIVE ForceIncreasing(_, _)
ForceIncreasing(cuts, i) ==
    IF i > Len(cuts) THEN cuts
    ELSE IF cuts[i] <= cuts[i - 1]
         THEN ForceIncreasing([cuts EXCEPT ![i] = cuts[i - 1] + 1], i + 1)
         ELSE ForceIncreasing(cuts, i + 1)

\* The cut points taken from the median of each window.
CutsFromMedian(n, windows, total_laps) ==
    LET first == <<1>> \o [i \in 1..(n - 1) |->
                     Max(2, Min(total_laps - 1, windows[i][2]))]
                 \o <<total_laps + 1>>
        inc == ForceIncreasing(first, 2)
        m == Len(inc)
    IN [inc EXCEPT ![m] = Max(inc[m], inc[m - 1] + 1)]

\* The cut points of lines 102-107, for n >= 2 and at least n-1 windows.
Cuts(n, windows, total_laps) ==
    LET first == <<1>> \o [i \in 1..(n - 1) |->
                     Max(2, Min(total_laps - 1, windows[i][1]))]
                 \o <<total_laps + 1>>
        inc == ForceIncreasing(first, 2)
        m == Len(inc)
    IN [inc EXCEPT ![m] = Max(inc[m], inc[m - 1] + 1)]

WindowsToStints(template, windows, total_laps) ==
    LET n == Len(template) IN
    IF n = 0 THEN <<>>
    ELSE IF n = 1 THEN << <<template[1], 1, total_laps + 1>> >>
    ELSE IF windows = <<>> \/ Len(windows) < n - 1 THEN <<>>
    ELSE LET cuts == Cuts(n, windows, total_laps) IN
         IF \E i \in 1..n : cuts[i + 1] <= cuts[i] THEN <<>>
         ELSE [i \in 1..n |-> <<template[i], cuts[i], cuts[i + 1]>>]

-----------------------------------------------------------------------------
(* _quantiles_for.  A survival model bundle is a record                    *)
(*   raises : predict_percentile raises or yields a non-finite value,      *)
(*   raw    : the three percentiles it yields otherwise, in half laps,     *)
(*   fb     : spec.get("fallback_q"): kind none, nan (non-finite entries)  *)
(*            or triple, with the entries q in half laps.                  *)
(* st carries the predictor state the function reads and writes:           *)
(* st.cache is _qcache and st.hits is _qcache_hits.                        *)

\* The fixed fallback (15, 22, 35).
FallbackTriple == <<15, 22, 35>>

LO_CAP == 5

HiCap(total_laps) == Max(6, total_laps - 1)

\* _cap on a finite value given in half laps.
Cap(h, total_laps) == Max(LO_CAP, Min(HiCap(total_laps), RoundHalfEven(h)))

\* No widening.
WidenNever(q, total_laps) == q

\* Lines 194-198: a range narrower than 6 laps is widened.
Widen(q, total_laps) ==
    IF q[3] - q[1] < 6
    THEN LET mid == (q[1] + q[3]) \div 2
             q25i == Max(LO_CAP, mid - 3)
             q75i == Min(HiCap(total_laps), q25i + 6)
             q50i == Max(q25i, Min(q75i - 1, q[2]))
         IN <<q25i, q50i, q75i>>
    ELSE q

\* Lines 200-201.
Reorder(q) ==
    IF q[1] <= q[2] /\ q[2] <= q[3] THEN q ELSE Sort3(q[1], q[2], q[3])

\* Lines 163-201: the triple computed from a bundle.
ModelTriple(spec, total_laps) ==
    LET failed == spec.raises
        finite == IF failed THEN spec.fb.kind # "nan" ELSE TRUE
        halves == IF ~failed THEN spec.raw
                  ELSE IF spec.fb.kind = "triple" THEN spec.fb.q
                  ELSE <<30, 44, 70>>
        sorted == Sort3(halves[1], halves[2], halves[3])
        capped == IF finite
                  THEN <<Cap(sorted[1], total_laps), Cap(sorted[2], total_laps),
                         Cap(sorted[3], total_laps)>>
                  ELSE FallbackTriple
    IN Reorder(Widen(capped, total_laps))

QKey(compound, stint_idx, circuit, track_temp, air_temp, total_laps) ==
    <<compound, stint_idx, circuit, track_temp, air_temp, total_laps>>

\* f with key k set to v, k added when missing.
Put(f, k, v) == [x \in DOMAIN f \cup {k} |-> IF x = k THEN v ELSE f[x]]

\* A lookup that recomputes on a hit and does not count it.
QuantilesForUncounted(sv, st, compound, stint_idx, circuit, track_temp, air_temp, total_laps) ==
    LET key == QKey(compound, stint_idx, circuit, track_temp, air_temp,
                    total_laps)
        q == IF compound \notin DOMAIN sv THEN FallbackTriple
             ELSE ModelTriple(sv[compound], total_laps)
    IN [q |-> q, cache |-> Put(st.cache, key, q), hits |-> st.hits]

QuantilesFor(sv, st, compound, stint_idx, circuit, track_temp, air_temp, total_laps) ==
    LET key == QKey(compound, stint_idx, circuit, track_temp, air_temp,
                    total_laps)
    IN IF key \in DOMAIN st.cache
       THEN [q |-> st.cache[key],
             cache |-> st.cache,
             hits |-> Put(st.hits, key,
                          (IF key \in DOMAIN st.hits THEN st.hits[key] ELSE 0)
                          + 1)]
       ELSE IF compound \notin DOMAIN sv
       THEN [q |-> FallbackTriple,
             cache |-> Put(st.cache, key, FallbackTriple),
             hits |-> st.hits]
       ELSE LET q == ModelTriple(sv[compound], total_laps)
            IN [q |-> q, cache |-> Put(st.cache, key, q), hits |-> st.hits]

-----------------------------------------------------------------------------
(* _stint_time, in milliseconds. *)

BaseDeg == ("SOFT" :> 40) @@ ("MEDIUM" :> 25) @@ ("HARD" :> 15)

DefaultDeg == 20

StintTime(base_pace_s, compound, stint_len, abrasion) ==
    LET d == IF compound \in DOMAIN BaseDeg THEN BaseDeg[compound]
             ELSE DefaultDeg
        d_eff == (d * (1000 + (700 * (abrasion - 500)) \div 1000)) \div 1000
        \* sum of 0 .. stint_len-1
        lapsum == IF stint_len <= 0 THEN 0
                  ELSE (stint_len * (stint_len - 1)) \div 2
    IN IF stint_len <= 0 THEN 0 ELSE base_pace_s * stint_len + d_eff * lapsum

-----------------------------------------------------------------------------
(* predict, lines 329-349: template enumeration, FIA filter and gating. *)

RECURSIVE ConcatAll(_)
ConcatAll(ss) == IF ss = <<>> THEN <<>> ELSE Head(ss) \o ConcatAll(Tail(ss))

\* itertools.product(compounds, repeat=n), in its order.
RECURSIVE Product(_, _)
Product(compounds, n) ==
    IF n = 0 THEN << <<>> >>
    ELSE LET rest == Product(compounds, n - 1)
         IN ConcatAll([i \in 1..Len(compounds) |->
                          [j \in 1..Len(rest) |-> <<compounds[i]>> \o rest[j]]])

\* The enumeration with one more stint count, range(2, max_stops + 3).
EnumerateOneMore(compounds, max_stops) ==
    ConcatAll([k \in 1..(max_stops + 1) |-> Product(compounds, k + 1)])

\* The enumeration that never skips n = 2.
EnumerateAtLeastTwo(compounds, max_stops) ==
    ConcatAll([k \in 1..(IF max_stops >= 1 THEN max_stops ELSE 1) |->
                  Product(compounds, k + 1)])

\* Lines 330-333: for n in range(2, max_stops + 2).
EnumerateTemplates(compounds, max_stops) ==
    ConcatAll([k \in 1..max_stops |-> Product(compounds, k + 1)])

\* No filter.
FiaFilterOff(tpls, fia_rule) == tpls

\* Lines 335-336.
FiaFilter(tpls, fia_rule) ==
    IF fia_rule THEN SelectSeq(tpls, LAMBDA t : Cardinality(Range(t)) >= 2)
    ELSE tpls

\* Lines 341-346 for one template, from position i on.
RECURSIVE GateTemplate(_, _, _, _, _)
GateTemplate(sv, cx, tpl, i, st) ==
    IF i > Len(tpl) - 1 THEN [ok |-> TRUE, cache |-> st.cache, hits |-> st.hits]
    ELSE LET r == QuantilesFor(sv, st, tpl[i], i, cx.circuit, cx.track_temp,
                               cx.air_temp, cx.total_laps)
         IN IF ~DurabilityOk(tpl[i], r.q[1], r.q[2], r.q[3], cx.circuit)
            THEN [ok |-> FALSE, cache |-> r.cache, hits |-> r.hits]
            ELSE GateTemplate(sv, cx, tpl, i + 1,
                              [cache |-> r.cache, hits |-> r.hits])

\* Lines 339-349: the gated templates and the cache the gating leaves.
RECURSIVE GateAll(_, _, _, _, _, _)
GateAll(sv, cx, tpls, k, gated, st) ==
    IF k > Len(tpls) THEN [gated |-> gated, cache |-> st.cache, hits |-> st.hits]
    ELSE LET g == GateTemplate(sv, cx, tpls[k], 1, st)
             next == [cache |-> g.cache, hits |-> g.hits]
         IN IF g.ok
            THEN GateAll(sv, cx, tpls, k + 1, Append(gated, tpls[k]), next)
            ELSE GateAll(sv, cx, tpls, k + 1, gated, next)

-----------------------------------------------------------------------------
(* _simulate_template. *)

\* best_time = np.inf
INF == 2000000000

\* bound_margin = 8.0 s
BOUND_MARGIN == 8000

\* early_stop_frac=0.18 of predict's call, in hundredths.
EARLY_STOP_FRAC == 18

\* A threshold of no runs at all.
EarlyStopAtOnce(sims) == 0

\* int(sims * early_stop_frac)
EarlyStopAt(sims) == (sims * EARLY_STOP_FRAC) \div 100

\* np.clip(v, lo, hi)
Clip(v, lo, hi) == Min(Max(v, lo), hi)

\* Lines 258-276: the ways one run can go from stint i on (stints count
\* from 1), one for every value rng.randint(q25, q75 + 1) can yield.
\* st.draws counts the draws taken from the generator.
RECURSIVE RunFrom(_, _, _, _, _, _, _)
RunFrom(sv, cx, tpl, i, laps_left, chosen, st) ==
    IF i > Len(tpl) THEN {[ok |-> TRUE, chosen |-> chosen, st |-> st]}
    ELSE IF i < Len(tpl)
    THEN LET r == QuantilesFor(sv, st, tpl[i], i, cx.circuit, cx.track_temp,
                               cx.air_temp, cx.total_laps)
             st1 == [cache |-> r.cache, hits |-> r.hits, draws |-> st.draws]
             st2 == [st1 EXCEPT !.draws = st.draws + 1]
         IN IF ~DurabilityOk(tpl[i], r.q[1], r.q[2], r.q[3], cx.circuit)
            THEN {[ok |-> FALSE, chosen |-> chosen, st |-> st1]}
            ELSE UNION {
                   IF laps_left - l < 0
                   THEN {[ok |-> FALSE, chosen |-> Append(chosen, l),
                          st |-> st2]}
                   ELSE RunFrom(sv, cx, tpl, i + 1, laps_left - l,
                                Append(chosen, l), st2)
                   : l \in {Clip(d, 1, Max(1, laps_left - 1)) :
                              d \in r.q[1]..r.q[3]}}
    ELSE LET l == laps_left
         IN IF laps_left - l < 0
            THEN {[ok |-> FALSE, chosen |-> Append(chosen, l), st |-> st]}
            ELSE RunFrom(sv, cx, tpl, i + 1, laps_left - l, Append(chosen, l),
                         st)

\* Lines 280-281: the race time of a run.
RaceTime(tpl, chosen, base_pace_s, pit_loss, abrasion) ==
    SumSeq([i \in 1..Len(tpl) |->
               StintTime(base_pace_s, tpl[i], chosen[i], abrasion)])
    + pit_loss * (Len(tpl) - 1)

\* np.cumsum(chosen)[:-1]
PitLaps(chosen) ==
    [i \in 1..(Len(chosen) - 1) |-> SumSeq(SubSeq(chosen, 1, i))]

\* The state of the loop before its first iteration, lines 253-255.
SimStart == [s |-> 0, times |-> <<>>, pit_laps_all |-> <<>>,
             best_time |-> INF, stopped |-> FALSE]

\* A test that stops as soon as the mean reaches the best time.
ShouldStopAtBest(completed, sims, times, best) ==
    /\ completed >= EarlyStopAt(sims)
    /\ SumSeq(times) >= Len(times) * best

\* Lines 286-289: the test that ends the loop early, made after the run
\* number completed (s + 1) has added its time to times; best is the
\* smallest of times.  mean > best + margin, without the division.
ShouldStop(completed, sims, times, best) ==
    /\ completed >= EarlyStopAt(sims)
    /\ SumSeq(times) > Len(times) * (best + BOUND_MARGIN)

\* Lines 277-290: the loop state after a run that went as o.
AfterRun(sm, sims, tpl, o, cp) ==
    IF ~o.ok \/ SumSeq(o.chosen) # cp.total_laps
    THEN [sm EXCEPT !.s = sm.s + 1]
    ELSE LET t == RaceTime(tpl, o.chosen, cp.base_pace_s, cp.pit_loss,
                           cp.abrasion)
             times2 == Append(sm.times, t)
             best2 == Min(sm.best_time, t)
             stop == ShouldStop(sm.s + 1, sims, times2, best2)
         IN IF stop
            THEN [sm EXCEPT !.s = sm.s + 1, !.times = times2,
                            !.best_time = best2, !.stopped = TRUE]
            ELSE [sm EXCEPT !.s = sm.s + 1, !.times = times2,
                            !.best_time = best2,
                            !.pit_laps_all = Append(sm.pit_laps_all,
                                                    PitLaps(o.chosen))]

\* The percentile counted from the top of the column.
PercentileMirrored(col, p) ==
    LET sorted == SortAsc(col)
        k == Len(sorted)
        pos == (k - 1) * (100 - p)
        idx == pos \div 100
        rem == pos % 100
        lower == sorted[idx + 1]
        upper == sorted[Min(idx + 2, k)]
    IN lower + (rem * (upper - lower)) \div 100

\* int(np.percentile(col, p)) for p in 25, 50, 75: linear interpolation
\* between the order statistics, truncated.  np.median is the case p = 50.
Percentile(col, p) ==
    LET sorted == SortAsc(col)
        k == Len(sorted)
        pos == (k - 1) * p
        idx == pos \div 100
        rem == pos % 100
        lower == sorted[idx + 1]
        upper == sorted[Min(idx + 2, k)]
    IN lower + (rem * (upper - lower)) \div 100

\* Lines 294-301.
Windows(pit_laps_all) ==
    IF pit_laps_all = <<>> \/ Len(pit_laps_all[1]) = 0 THEN <<>>
    ELSE [i \in 1..Len(pit_laps_all[1]) |->
             LET col == [j \in 1..Len(pit_laps_all) |-> pit_laps_all[j][i]]
             IN <<Percentile(col, 25), Percentile(col, 50),
                  Percentile(col, 75)>>]

\* float(np.mean(times)), to the millisecond.
MeanTime(times) == SumSeq(times) \div Len(times)

-----------------------------------------------------------------------------
(* Exact arithmetic for scores and probabilities.  A non-negative real is  *)
(* kept as the set of the exponents of its binary expansion: the set S     *)
(* stands for the sum of 2^(-e) over e in S, and {} for 0.                 *)

\* S + 2^(-e)
RECURSIVE DyAdd(_, _)
DyAdd(S, e) == IF e \in S THEN DyAdd(S \ {e}, e - 1) ELSE S \cup {e}

\* A + B
RECURSIVE DyPlus(_, _)
DyPlus(A, B) ==
    IF B = {} THEN A
    ELSE LET e == CHOOSE x \in B : TRUE IN DyPlus(DyAdd(A, e), B \ {e})

\* A * B
RECURSIVE DyMul(_, _)
DyMul(A, B) ==
    IF A = {} THEN {}
    ELSE LET a == CHOOSE x \in A : TRUE
         IN DyPlus(DyMul(A \ {a}, B), {b + a : b \in B})

\* A < B: the most significant bit in which they differ is B's.
DyLess(A, B) ==
    /\ A # B
    /\ LET D == (A \ B) \cup (B \ A)
           m == CHOOSE x \in D : \A y \in D : x <= y
       IN m \in B

\* The sum of a sequence of reals.
RECURSIVE DySum(_)
DySum(s) == IF s = <<>> THEN {} ELSE DyPlus(Head(s), DySum(Tail(s)))

\* The natural number n.
DyNat(n) == DySum([i \in 1..n |-> {0}])

\* A fraction is a record [num, den]; a < b as fractions.
FracLess(a, b) == DyLess(DyMul(a.num, b.den), DyMul(b.num, a.den))

-----------------------------------------------------------------------------
(* _template_prior and the scoring of predict, lines 371-384.              *)
(*                                                                         *)
(* A prior, a time factor and a score are positive reals.  The model keeps *)
(* them on the grid of the powers of two: an integer e stands for 2^(-e).  *)
(* A classifier is a record                                                *)
(*   raises  : predict_proba raises,                                       *)
(*   classes : clf.classes_,                                               *)
(*   nlog    : current compound -> -log2 of the probability predict_proba  *)
(*             gives each class (LOG_EPS for probability 0, which the      *)
(*             code turns into log(1e-9)).                                 *)

\* -log2(1e-4), rounded: the floor of a missing class or a failure.
LOG_FLOOR == 13

\* -log2(1e-9), rounded: np.log(proba + 1e-9) of a probability 0.
LOG_EPS == 30

\* Lines 237-245: -log2 of what one transition adds to prior_log.
TransitionTerm(cl, cur_c, next_c) ==
    IF cl.raises THEN LOG_FLOOR
    ELSE IF next_c \in Range(cl.classes)
         THEN Min(LOG_EPS, cl.nlog[cur_c][next_c])
         ELSE LOG_FLOOR

\* -log2 of the prior: the mean of the terms, rounded down to the grid.
TemplatePrior(cl, template) ==
    IF Len(template) <= 1 THEN LOG_FLOOR
    ELSE SumSeq([i \in 1..(Len(template) - 1) |->
                    TransitionTerm(cl, template[i], template[i + 1])])
         \div (Len(template) - 1)

\* Lines 237-245 without rounding: exp of what one transition adds to
\* prior_log, as an exact real.  A class of probability 2^(-e) gives
\* 2^(-e) + 1e-9, a class of probability 0 gives 1e-9, a missing class or
\* a failure 1e-4 (1e-9 and 1e-4 at the powers of two LOG_EPS, LOG_FLOOR).
TransitionFactor(cl, cur_c, next_c) ==
    IF cl.raises THEN {LOG_FLOOR}
    ELSE IF next_c \in Range(cl.classes)
         THEN LET e == cl.nlog[cur_c][next_c]
              IN DyAdd(IF e >= LOG_EPS THEN {} ELSE {e}, LOG_EPS)
         ELSE {LOG_FLOOR}

RECURSIVE FactorProduct(_, _, _)
FactorProduct(cl, template, i) ==
    IF i >= Len(template) THEN {0}
    ELSE DyMul(TransitionFactor(cl, template[i], template[i + 1]),
               FactorProduct(cl, template, i + 1))

\* _template_prior without rounding.  The prior is np.exp of the mean of
\* the logarithms, the root-th root of the product of the factors: the
\* result gives the product as power, so prior = power^(1/root).
TemplatePriorExact(cl, template) ==
    IF Len(template) <= 1 THEN [power |-> {LOG_FLOOR}, root |-> 1]
    ELSE [power |-> FactorProduct(cl, template, 1),
          root |-> Len(template) - 1]

\* times.min()
MinSeq(s) == CHOOSE m \in Range(s) : \A x \in Range(s) : m <= x

\* times.std(), in centiseconds, of times given in milliseconds.
StdDev(times) ==
    LET n == Len(times)
        tmin == MinSeq(times)
        d == [i \in 1..n |-> (times[i] - tmin) \div 10]
        sq == [i \in 1..n |-> d[i] * d[i]]
        mean == SumSeq(d) \div n
    IN Isqrt(SumSeq(sq) \div n - mean * mean)

\* Line 376: (times - times.min()) / (times.std() + 1e-9), in thousandths.
\* The 1e-9 decides the quotient only where the deviation rounds to 0.
NormTime(times) ==
    LET tmin == MinSeq(times)
        sd == Max(StdDev(times), 1)
    IN [i \in 1..Len(times) |-> (1000 * ((times[i] - tmin) \div 10)) \div sd]

\* log2(e), in thousandths.
LOG2_E == 1443

\* A score that grows with the race time: exp(+norm_time * BETA).
ScoreSlowFirst(priors, norms) ==
    [i \in 1..Len(priors) |->
        {ALPHA_HISTORICAL_PRIOR * priors[i]
         - ((((norms[i] * BETA_TIME_PRIOR) \div 1000) * LOG2_E) + 500000)
           \div 1000000}]

\* Line 377: priors ** ALPHA * exp(-norm_time * BETA), the time factor
\* rounded to the grid.
Score(priors, norms) ==
    [i \in 1..Len(priors) |->
        {ALPHA_HISTORICAL_PRIOR * priors[i]
         + ((((norms[i] * BETA_TIME_PRIOR) \div 1000) * LOG2_E) + 500000)
           \div 1000000}]

\* The scores as they are, not divided by their sum.
ProbsUnnormalised(score) ==
    [i \in 1..Len(score) |-> [num |-> score[i], den |-> {0}]]

\* Line 378: the probabilities, each a fraction [num, den].
Probs(score) ==
    LET total == DySum(score)
    IN IF DyLess({}, total)
       THEN [i \in 1..Len(score) |-> [num |-> score[i], den |-> total]]
       ELSE [i \in 1..Len(score) |-> [num |-> {0}, den |-> DyNat(Len(score))]]

\* Line 383: results.sort(key=prob, reverse=True): stable, best first.
RECURSIVE InsertDesc(_, _)
InsertDesc(s, r) ==
    IF s = <<>> THEN <<r>>
    ELSE IF FracLess(Head(s).prob, r.prob) THEN <<r>> \o s
    ELSE <<Head(s)>> \o InsertDesc(Tail(s), r)

\* An insertion that puts r before the candidates of the same prob.
RECURSIVE InsertDescFirst(_, _)
InsertDescFirst(s, r) ==
    IF s = <<>> THEN <<r>>
    ELSE IF ~FracLess(r.prob, Head(s).prob) THEN <<r>> \o s
    ELSE <<Head(s)>> \o InsertDescFirst(Tail(s), r)

\* A sort that reverses the order of the candidates of equal prob.
RECURSIVE SortTiesReversed(_, _)
SortTiesReversed(rs, k) ==
    IF k = 0 THEN <<>>
    ELSE InsertDescFirst(SortTiesReversed(rs, k - 1), rs[k])

\* No sort.
Unsorted(rs, k) == rs

RECURSIVE SortByProb(_, _)
SortByProb(rs, k) ==
    IF k = 0 THEN <<>> ELSE InsertDesc(SortByProb(rs, k - 1), rs[k])

\* A truncation that divides what it keeps by the sum of what it keeps.
SliceRenormalised(rs, top_k) ==
    LET kept == SubSeq(rs, 1, IF top_k >= 0 THEN Min(top_k, Len(rs))
                              ELSE Max(0, Len(rs) + top_k))
        total == DySum([i \in 1..Len(kept) |-> kept[i].prob.num])
    IN [i \in 1..Len(kept) |-> [kept[i] EXCEPT !.prob.den = total]]

\* Line 384: results[:top_k], a Python slice.
Slice(rs, top_k) ==
    IF top_k >= 0 THEN SubSeq(rs, 1, Min(top_k, Len(rs)))
    ELSE SubSeq(rs, 1, Max(0, Len(rs) + top_k))

\* Lines 371-381: results with their prob set.
WithProbs(cl, rs) ==
    LET times == [i \in 1..Len(rs) |-> rs[i].expected_total_race_time]
        priors == [i \in 1..Len(rs) |-> TemplatePrior(cl, rs[i].template)]
        probs == Probs(Score(priors, NormTime(times)))
    IN [i \in 1..Len(rs) |-> [rs[i] EXCEPT !.prob = probs[i]]]

-----------------------------------------------------------------------------
(* The artifacts a deployment may load, and the requests it may get. *)

NoFallback == [kind |-> "none", q |-> <<0, 0, 0>>]

Fitted(raw) == [raises |-> FALSE, raw |-> raw, fb |-> NoFallback]

Failing(fb) == [raises |-> TRUE, raw |-> <<0, 0, 0>>, fb |-> fb]

\* Bundles for all three compounds.
SurvAll ==
    ("SOFT" :> Fitted(<<21, 27, 40>>)) @@ ("MEDIUM" :> Fitted(<<37, 50, 61>>))
    @@ ("HARD" :> Fitted(<<50, 71, 90>>))

\* No bundle for SOFT.
SurvNoSoft ==
    ("MEDIUM" :> Fitted(<<37, 50, 61>>)) @@ ("HARD" :> Fitted(<<50, 71, 90>>))

\* Models that fail: without fallback_q, with one, with a non-finite one.
SurvFailing ==
    ("SOFT" :> Failing(NoFallback))
    @@ ("MEDIUM" :> Failing([kind |-> "triple", q |-> <<20, 30, 36>>]))
    @@ ("HARD" :> Failing([kind |-> "nan", q |-> <<0, 0, 0>>]))

SurvBundles == {SurvAll, SurvNoSoft, SurvFailing}

Compounds == {"SOFT", "MEDIUM", "HARD"}

ClfFitted ==
    [raises |-> FALSE, classes |-> <<"HARD", "MEDIUM", "SOFT">>,
     nlog |-> ("SOFT" :> (("SOFT" :> 3) @@ ("MEDIUM" :> 1) @@ ("HARD" :> 2)))
           @@ ("MEDIUM" :> (("SOFT" :> 2) @@ ("MEDIUM" :> 2) @@ ("HARD" :> 1)))
           @@ ("HARD" :> (("SOFT" :> 1) @@ ("MEDIUM" :> 1) @@ ("HARD" :> 30)))]

ClfRaising == [raises |-> TRUE, classes |-> <<>>, nlog |-> <<>>]

\* A classifier that never saw SOFT as the next compound.
ClfNoSoft ==
    [raises |-> FALSE, classes |-> <<"HARD", "MEDIUM">>,
     nlog |-> [c \in Compounds |-> ("MEDIUM" :> 1) @@ ("HARD" :> 1)]]

Classifiers == {ClfFitted, ClfRaising, ClfNoSoft}

\* A classifier that gives MEDIUM probability 1 and the other classes 0.
ClfCertain ==
    [raises |-> FALSE, classes |-> <<"HARD", "MEDIUM", "SOFT">>,
     nlog |-> [c \in Compounds |->
                 ("SOFT" :> LOG_EPS) @@ ("MEDIUM" :> 0) @@ ("HARD" :> LOG_EPS)]]

\* The circuit metadata file: one circuit, of 1..MaxLaps laps.  Silverstone
\* has no entry in DURA_OVERRIDES, so the generic limits gate its stints.
Metadata(laps) ==
    "Silverstone" :> [total_laps |-> laps, pit_loss |-> 20000,
                      base_pace_s |-> 100000]

CompoundLists == {<<"SOFT", "MEDIUM">>, <<"SOFT", "SOFT">>, <<>>}

MaxStopsChoices == {0, 1, 2}

TopKChoices == {-1, 2}

Requests ==
    [circuit : {"Silverstone"}, track_temp : {30}, air_temp : {25},
     compounds : CompoundLists, max_stops : MaxStopsChoices,
     fia_rule : BOOLEAN, top_k : TopKChoices]

NoReq == [circuit |-> "", track_temp |-> 0, air_temp |-> 0,
          compounds |-> <<>>, max_stops |-> 0, fia_rule |-> FALSE,
          top_k |-> 0]

-----------------------------------------------------------------------------
(* The state machine. *)

NoProbe == [op |-> "none", args |-> <<>>, done |-> FALSE, result |-> <<>>]

\* The class attributes before initialize(): _initialized = False.
Unloaded ==
    /\ initialized = FALSE
    /\ surv = <<>>
    /\ clf = ClfRaising
    /\ circuit_defaults = <<>>
    /\ qcache = <<>>
    /\ qcache_hits = <<>>
    /\ rng = 0
    /\ pc = "idle"
    /\ req = NoReq
    /\ enumerated = <<>>
    /\ templates = <<>>
    /\ ti = 0
    /\ sim = SimStart
    /\ results = <<>>
    /\ generated = <<>>
    /\ returned = <<>>
    /\ outcome = "none"
    /\ calls = 0

Init == Unloaded /\ probe = NoProbe

\* The predictor after an initialize() that loaded the bundles sv, the
\* classifier cl and the metadata of a circuit of laps laps: lines 56-67.
Ready(sv, cl, laps) ==
    /\ initialized = TRUE
    /\ surv = sv
    /\ clf = cl
    /\ circuit_defaults = Metadata(laps)
    /\ qcache = <<>>
    /\ qcache_hits = <<>>
    /\ rng = 0
    /\ pc = "idle"
    /\ req = NoReq
    /\ enumerated = <<>>
    /\ templates = <<>>
    /\ ti = 0
    /\ sim = SimStart
    /\ results = <<>>
    /\ generated = <<>>
    /\ returned = <<>>
    /\ outcome = "none"
    /\ calls = 0

\* The body of initialize() on an uninitialized predictor, lines 52-72.
\* failAt names the load that raises: surv, clf, json, or none.
Load ==
    \E sv \in SurvBundles, cl \in Classifiers, laps \in 1..MaxLaps,
       failAt \in {"none", "surv", "clf", "json"} :
        /\ surv' = IF failAt = "surv" THEN surv ELSE sv
        /\ clf' = IF failAt \in {"surv", "clf"} THEN clf ELSE cl
        /\ circuit_defaults' =
               IF failAt = "none" THEN Metadata(laps) ELSE circuit_defaults
        /\ rng' = IF failAt = "none" THEN 0 ELSE rng
        /\ qcache' = IF failAt = "none" THEN <<>> ELSE qcache
        /\ qcache_hits' = IF failAt = "none" THEN <<>> ELSE qcache_hits
        /\ initialized' = (failAt = "none")
        /\ UNCHANGED <<pc, req, enumerated, templates, ti, sim, results,
                       generated, returned, outcome, calls>>

\* initialize(), lines 47-72.
Initialize ==
    /\ pc = "idle"
    /\ IF initialized THEN UNCHANGED vars ELSE Load /\ UNCHANGED probe

\* predict() with the readiness test after the enumeration.
PredictNotReadyLate ==
    /\ pc = "idle"
    /\ calls < MaxCalls
    /\ ~initialized
    /\ \E r \in Requests :
          /\ req' = r
          /\ enumerated' = EnumerateTemplates(r.compounds, r.max_stops)
    /\ outcome' = "not_ready"
    /\ returned' = <<>>
    /\ generated' = <<>>
    /\ calls' = calls + 1
    /\ UNCHANGED <<initialized, surv, clf, circuit_defaults, qcache,
                   qcache_hits, rng, pc, templates, ti, sim, results, probe>>

\* predict(r) on an uninitialized predictor, lines 313-314.
NotReady(r) ==
    /\ pc = "idle"
    /\ ~initialized
    /\ req' = r
    /\ outcome' = "not_ready"
    /\ returned' = <<>>
    /\ generated' = <<>>
    /\ enumerated' = <<>>
    /\ calls' = calls + 1
    /\ UNCHANGED <<initialized, surv, clf, circuit_defaults, qcache,
                   qcache_hits, rng, pc, templates, ti, sim, results>>

PredictNotReady ==
    /\ calls < MaxCalls
    /\ \E r \in Requests : NotReady(r)
    /\ UNCHANGED probe

\* The circuit parameters and context of the call in progress.
Cp == GetCircuitParams(circuit_defaults, req.circuit)

Cx(r, laps) == [circuit |-> r.circuit, track_temp |-> r.track_temp,
                air_temp |-> r.air_temp, total_laps |-> laps]

\* A predict() that stores the parameters it resolved in the metadata.
StartCallStoring(r) ==
    /\ pc = "idle"
    /\ initialized
    /\ LET cp == GetCircuitParams(circuit_defaults, r.circuit)
           all == EnumerateTemplates(r.compounds, r.max_stops)
           g == GateAll(surv, Cx(r, cp.total_laps),
                        FiaFilter(all, r.fia_rule), 1, <<>>,
                        [cache |-> qcache, hits |-> qcache_hits])
       IN /\ req' = r
          /\ enumerated' = all
          /\ templates' = g.gated
          /\ qcache' = g.cache
          /\ qcache_hits' = g.hits
          /\ pc' = IF g.gated = <<>> THEN "rank" ELSE "sim"
          /\ circuit_defaults' = Put(circuit_defaults, r.circuit, cp)
    /\ ti' = 1
    /\ sim' = SimStart
    /\ results' = <<>>
    /\ generated' = <<>>
    /\ returned' = <<>>
    /\ outcome' = "none"
    /\ UNCHANGED <<initialized, surv, clf, rng, calls>>

\* predict(), lines 313-349, for the request r: parameters, enumeration, FIA
\* filter, gating.
StartCall(r) ==
    /\ pc = "idle"
    /\ initialized
    /\ LET cp == GetCircuitParams(circuit_defaults, r.circuit)
           all == EnumerateTemplates(r.compounds, r.max_stops)
           g == GateAll(surv, Cx(r, cp.total_laps),
                        FiaFilter(all, r.fia_rule), 1, <<>>,
                        [cache |-> qcache, hits |-> qcache_hits])
       IN /\ req' = r
          /\ enumerated' = all
          /\ templates' = g.gated
          /\ qcache' = g.cache
          /\ qcache_hits' = g.hits
          /\ pc' = IF g.gated = <<>> THEN "rank" ELSE "sim"
    /\ ti' = 1
    /\ sim' = SimStart
    /\ results' = <<>>
    /\ generated' = <<>>
    /\ returned' = <<>>
    /\ outcome' = "none"
    /\ UNCHANGED <<initialized, surv, clf, circuit_defaults, rng, calls>>

PredictStart ==
    /\ calls < MaxCalls
    /\ \E r \in Requests : StartCall(r)
    /\ UNCHANGED probe

\* One iteration of the loop of _simulate_template, lines 257-290.
SimulateRun ==
    /\ pc = "sim"
    /\ ~sim.stopped
    /\ sim.s < Sims
    /\ \E o \in RunFrom(surv, Cx(req, Cp.total_laps), templates[ti], 1,
                        Cp.total_laps, <<>>,
                        [cache |-> qcache, hits |-> qcache_hits,
                         draws |-> rng]) :
          /\ sim' = AfterRun(sim, Sims, templates[ti], o, Cp)
          /\ qcache' = o.st.cache
          /\ qcache_hits' = o.st.hits
          /\ rng' = o.st.draws
    /\ UNCHANGED <<initialized, surv, clf, circuit_defaults, pc, req,
                   enumerated, templates, ti, results, generated, returned,
                   outcome, calls, probe>>

\* Lines 355-366: the candidate of a simulated template, or none.
Candidate(tpl, sm, total_laps) ==
    IF sm.times = <<>> THEN <<>>
    ELSE LET windows == Windows(sm.pit_laps_all)
             stints == WindowsToStints(tpl, windows, total_laps)
             single == << <<tpl[1], 1, total_laps + 1>> >>
         IN IF stints = <<>> /\ Len(tpl) # 1 THEN <<>>
            ELSE << [template |-> tpl,
                     stints |-> IF stints = <<>> THEN single ELSE stints,
                     windows |-> windows,
                     expected_total_race_time |-> MeanTime(sm.times),
                     prob |-> [num |-> {}, den |-> {0}]] >>

\* A loop of predict that gives up its results at a template without a
\* valid run.
SimulateFinishDropsAll ==
    /\ pc = "sim"
    /\ sim.stopped \/ sim.s = Sims
    /\ results' = IF sim.times = <<>> THEN <<>>
                  ELSE results \o Candidate(templates[ti], sim, Cp.total_laps)
    /\ ti' = ti + 1
    /\ sim' = SimStart
    /\ pc' = IF ti = Len(templates) THEN "rank" ELSE "sim"
    /\ UNCHANGED <<initialized, surv, clf, circuit_defaults, qcache,
                   qcache_hits, rng, req, enumerated, templates, generated,
                   returned, outcome, calls, probe>>

\* The end of _simulate_template, lines 292-302, and the rest of the loop
\* body of predict, lines 355-366.
SimulateFinish ==
    /\ pc = "sim"
    /\ sim.stopped \/ sim.s = Sims
    /\ results' = results \o Candidate(templates[ti], sim, Cp.total_laps)
    /\ ti' = ti + 1
    /\ sim' = SimStart
    /\ pc' = IF ti = Len(templates) THEN "rank" ELSE "sim"
    /\ UNCHANGED <<initialized, surv, clf, circuit_defaults, qcache,
                   qcache_hits, rng, req, enumerated, templates, generated,
                   returned, outcome, calls, probe>>

\* predict(), lines 368-384: scoring, sort and truncation; the call returns.
Return ==
    /\ pc = "rank"
    /\ generated' = IF results = <<>> THEN <<>> ELSE WithProbs(clf, results)
    /\ returned' = Slice(SortByProb(generated', Len(generated')), req.top_k)
    /\ outcome' = "ok"
    /\ pc' = "idle"
    /\ calls' = calls + 1
    /\ templates' = <<>>
    /\ results' = <<>>
    /\ ti' = 0
    /\ UNCHANGED <<initialized, surv, clf, circuit_defaults, qcache,
                   qcache_hits, rng, req, enumerated, sim>>

PredictRank == Return /\ UNCHANGED probe

Next ==
    \/ Initialize
    \/ PredictNotReady
    \/ PredictStart
    \/ SimulateRun
    \/ SimulateFinish
    \/ PredictRank

Spec == Init /\ [][Next]_vars

-----------------------------------------------------------------------------
(* _durability_ok as a pure function: a call with arguments drawn from      *)
(* bounded sets, then its result.                                           *)

GateCompounds == {"SOFT", "MEDIUM", "HARD", "INTERMEDIATE"}

GateCircuits == {"Monaco", "Zandvoort", "Silverstone"}

GateArgs ==
    {<<c, q25, q50, q75, circuit>> :
        c \in GateCompounds, q25 \in {5, 15}, q50 \in 5..MaxQ, q75 \in 5..MaxQ,
        circuit \in GateCircuits}

InitGate ==
    /\ Unloaded
    /\ \E a \in GateArgs :
          /\ a[2] <= a[3] /\ a[3] <= a[4]
          /\ probe = [op |-> "_durability_ok", args |-> a, done |-> FALSE,
                      result |-> <<>>]

CallDurabilityOk ==
    /\ probe.op = "_durability_ok"
    /\ ~probe.done
    /\ probe' = [probe EXCEPT
                    !.done = TRUE,
                    !.result = DurabilityOk(probe.args[1], probe.args[2],
                                            probe.args[3], probe.args[4],
                                            probe.args[5])]
    /\ UNCHANGED <<initialized, surv, clf, circuit_defaults, qcache,
                   qcache_hits, rng, pc, req, enumerated, templates, ti, sim,
                   results, generated, returned, outcome, calls>>

NextGate == CallDurabilityOk

SpecGate == InitGate /\ [][NextGate]_vars

-----------------------------------------------------------------------------
(* The normalisation of line 378 as a pure function of the score vector.   *)

ScoreValues == SUBSET (0..MaxExp)

ScoreVectors == UNION {[1..n -> ScoreValues] : n \in 1..MaxScores}

InitProbs ==
    /\ Unloaded
    /\ \E sc \in ScoreVectors :
          probe = [op |-> "probs", args |-> sc, done |-> FALSE,
                   result |-> <<>>]

CallProbs ==
    /\ probe.op = "probs"
    /\ ~probe.done
    /\ probe' = [probe EXCEPT !.done = TRUE, !.result = Probs(probe.args)]
    /\ UNCHANGED <<initialized, surv, clf, circuit_defaults, qcache,
                   qcache_hits, rng, pc, req, enumerated, templates, ti, sim,
                   results, generated, returned, outcome, calls>>

NextProbs == CallProbs

SpecProbs == InitProbs /\ [][NextProbs]_vars

-----------------------------------------------------------------------------
(* _get_circuit_params as a pure function of the metadata and the name.    *)

ParamsCircuits == {"Monaco", "Silverstone", "Spa"}

\* Metadata files: empty, or one circuit with its three values.
ParamsFiles ==
    {<<>>} \cup
    {name :> [total_laps |-> l, pit_loss |-> p, base_pace_s |-> b] :
        name \in {"Monaco", "Silverstone"}, l \in 1..MaxLaps,
        p \in {18500, 20000}, b \in {80000, 100000}}

InitParams ==
    /\ Unloaded
    /\ \E f \in ParamsFiles, c \in ParamsCircuits :
          probe = [op |-> "_get_circuit_params", args |-> <<f, c>>,
                   done |-> FALSE, result |-> <<>>]

CallGetCircuitParams ==
    /\ probe.op = "_get_circuit_params"
    /\ ~probe.done
    /\ probe' = [probe EXCEPT
                    !.done = TRUE,
                    !.result = GetCircuitParams(probe.args[1], probe.args[2])]
    /\ UNCHANGED <<initialized, surv, clf, circuit_defaults, qcache,
                   qcache_hits, rng, pc, req, enumerated, templates, ti, sim,
                   results, generated, returned, outcome, calls>>

NextParams == CallGetCircuitParams

SpecParams == InitParams /\ [][NextParams]_vars

-----------------------------------------------------------------------------
(* _quantiles_for one call at a time, on a predictor that initialize() has *)
(* loaded.  probe.args lists the keys looked up so far, probe.result is    *)
(* the triple the last lookup returned.                                    *)

LookupCompounds == {"SOFT", "MEDIUM"}

LookupArgs ==
    {<<c, i, "Silverstone", 30, 25, laps>> :
        c \in LookupCompounds, i \in {1, 2}, laps \in {MaxLaps, 60}}

InitQuantiles ==
    /\ \E sv \in SurvBundles : Ready(sv, ClfRaising, MaxLaps)
    /\ probe = [op |-> "_quantiles_for", args |-> <<>>, done |-> FALSE,
                result |-> <<>>]

CallQuantilesFor ==
    /\ probe.op = "_quantiles_for"
    /\ Len(probe.args) < MaxLookups
    /\ \E a \in LookupArgs :
          LET r == QuantilesFor(surv, [cache |-> qcache, hits |-> qcache_hits],
                                a[1], a[2], a[3], a[4], a[5], a[6])
          IN /\ qcache' = r.cache
             /\ qcache_hits' = r.hits
             /\ probe' = [probe EXCEPT !.args = Append(@, a), !.done = TRUE,
                                       !.result = r.q]
    /\ UNCHANGED <<initialized, surv, clf, circuit_defaults, rng, pc, req,
                   enumerated, templates, ti, sim, results, generated,
                   returned, outcome, calls>>

NextQuantiles == CallQuantilesFor

SpecQuantiles == InitQuantiles /\ [][NextQuantiles]_vars

-----------------------------------------------------------------------------
(* _template_prior as a pure function of the classifier and the template.  *)

PriorClassifiers == Classifiers \cup {ClfCertain}

PriorTemplates == UNION {[1..n -> Compounds] : n \in 1..MaxTplLen}

InitPrior ==
    /\ Unloaded
    /\ \E cl \in PriorClassifiers, t \in PriorTemplates :
          probe = [op |-> "_template_prior", args |-> <<cl, t>>,
                   done |-> FALSE, result |-> <<>>]

CallTemplatePrior ==
    /\ probe.op = "_template_prior"
    /\ ~probe.done
    /\ probe' = [probe EXCEPT
                    !.done = TRUE,
                    !.result = TemplatePriorExact(probe.args[1],
                                                  probe.args[2])]
    /\ UNCHANGED <<initialized, surv, clf, circuit_defaults, qcache,
                   qcache_hits, rng, pc, req, enumerated, templates, ti, sim,
                   results, generated, returned, outcome, calls>>

NextPrior == CallTemplatePrior

SpecPrior == InitPrior /\ [][NextPrior]_vars

-----------------------------------------------------------------------------
(* predict() on a circuit long enough for the draws of a stint length to   *)
(* differ: with LongLaps laps the triple of a fitted compound is           *)
(* (5, 6, LongLaps - 1), and rng.randint gives any lap count in it.        *)

LongLaps == MaxLaps + 3

\* One call, of templates of one compound.
WindowRequests ==
    [circuit : {"Silverstone"}, track_temp : {30}, air_temp : {25},
     compounds : {<<"SOFT">>, <<"MEDIUM">>}, max_stops : {1, 2},
     fia_rule : BOOLEAN, top_k : TopKChoices]

InitWindows == Ready(SurvAll, ClfFitted, LongLaps) /\ probe = NoProbe

PredictLong ==
    /\ calls = 0
    /\ \E r \in WindowRequests : StartCall(r)
    /\ UNCHANGED probe

NextWindows ==
    \/ PredictLong
    \/ SimulateRun
    \/ SimulateFinish
    \/ PredictRank

SpecWindows == InitWindows /\ [][NextWindows]_vars

-----------------------------------------------------------------------------
(* The same request again and again on one predictor.  probe.args is the   *)
(* request; probe.result has, for every call so far, the quantile cache at *)
(* its start and, once it has returned, the templates in returned order.   *)

Repeats == MaxCalls + 2

RepeatRequests ==
    [circuit : {"Silverstone"}, track_temp : {30}, air_temp : {25},
     compounds : {<<"SOFT", "MEDIUM">>}, max_stops : {1},
     fia_rule : {TRUE}, top_k : TopKChoices]

InitRepeat ==
    /\ Ready(SurvAll, ClfRaising, LongLaps)
    /\ \E r \in RepeatRequests :
          probe = [op |-> "repeat", args |-> r, done |-> FALSE,
                   result |-> <<>>]

RepeatStart ==
    /\ calls < Repeats
    /\ StartCall(probe.args)
    /\ probe' = [probe EXCEPT
                    !.done = FALSE,
                    !.result = Append(@, [cache |-> qcache, done |-> FALSE,
                                          order |-> <<>>])]

RepeatReturn ==
    /\ Return
    /\ probe' = [probe EXCEPT
                    !.done = TRUE,
                    !.result[Len(probe.result)] =
                        [@ EXCEPT !.done = TRUE,
                                  !.order = [i \in 1..Len(returned') |->
                                                returned'[i].template]]]

NextRepeat ==
    \/ RepeatStart
    \/ SimulateRun
    \/ SimulateFinish
    \/ RepeatReturn

SpecRepeat == InitRepeat /\ [][NextRepeat]_vars

-----------------------------------------------------------------------------
(* The early-stop test of _simulate_template as a pure function of the     *)
(* number of completed runs, sims and the recorded times.                  *)

\* sims=260, the count predict() passes.
SIMS_FULL == 260

StopSims == {Sims, 6 * Sims, SIMS_FULL}

\* Completed runs: the first ones and those around the threshold.
StopCompleted(sims) ==
    {c \in 1..sims :
        \/ c <= MaxTimes
        \/ c \in (EarlyStopAt(sims) - 1)..(EarlyStopAt(sims) + 1)}

\* Race times in milliseconds: 8 s apart, and 1 ms and 8 s more.
StopTimes == {6000000, 6008000, 6016000, 6016001, 6024000}

InitEarlyStop ==
    /\ Unloaded
    /\ \E n \in StopSims :
       \E c \in StopCompleted(n) :
       \E k \in 1..Min(c, MaxTimes) :
       \E t \in [1..k -> StopTimes] :
          probe = [op |-> "early_stop",
                   args |-> [sims |-> n, completed |-> c, times |-> t],
                   done |-> FALSE, result |-> FALSE]

CallShouldStop ==
    /\ probe.op = "early_stop"
    /\ ~probe.done
    /\ probe' = [probe EXCEPT
                    !.done = TRUE,
                    !.result = ShouldStop(probe.args.completed,
                                          probe.args.sims, probe.args.times,
                                          MinSeq(probe.args.times))]
    /\ UNCHANGED <<initialized, surv, clf, circuit_defaults, qcache,
                   qcache_hits, rng, pc, req, enumerated, templates, ti, sim,
                   results, generated, returned, outcome, calls>>

NextEarlyStop == CallShouldStop

SpecEarlyStop == InitEarlyStop /\ [][NextEarlyStop]_vars

-----------------------------------------------------------------------------
(* _windows_to_stints as a pure function of the template, the windows and  *)
(* total_laps.                                                             *)

StintTemplates == {<<"SOFT", "MEDIUM">>, <<"SOFT", "MEDIUM", "HARD">>}

\* Windows (p25, p50, p75) with p25 from lap 0 to past the last lap.
StintWindows ==
    {<<lo, lo + d, lo + d>> : lo \in 0..(MaxLaps + 1), d \in {0, 2}}

InitStints ==
    /\ Unloaded
    /\ \E t \in StintTemplates, laps \in 1..MaxLaps :
       \E w \in UNION {[1..k -> StintWindows] : k \in 0..2} :
          probe = [op |-> "_windows_to_stints", args |-> <<t, w, laps>>,
                   done |-> FALSE, result |-> <<>>]

CallWindowsToStints ==
    /\ probe.op = "_windows_to_stints"
    /\ ~probe.done
    /\ probe' = [probe EXCEPT
                    !.done = TRUE,
                    !.result = WindowsToStints(probe.args[1], probe.args[2],
                                               probe.args[3])]
    /\ UNCHANGED <<initialized, surv, clf, circuit_defaults, qcache,
                   qcache_hits, rng, pc, req, enumerated, templates, ti, sim,
                   results, generated, returned, outcome, calls>>

NextStints == CallWindowsToStints

SpecStints == InitStints /\ [][NextStints]_vars

-----------------------------------------------------------------------------
(* initialize() called again and again between predict() calls.  Every     *)
(* CachedStrategyPredictor() is the one instance of __new__, lines 42-45,  *)
(* whose attributes are the variables.  probe.args counts the calls of     *)
(* initialize(), probe.result tells how the last one went.                 *)

LifecycleRequests ==
    [circuit : {"Silverstone"}, track_temp : {30}, air_temp : {25},
     compounds : {<<"SOFT", "MEDIUM">>}, max_stops : {1},
     fia_rule : {FALSE}, top_k : {2}]

InitLifecycle ==
    /\ Unloaded
    /\ probe = [op |-> "initialize", args |-> 0, done |-> FALSE,
                result |-> "none"]

\* An initialize() that loads whether or not the predictor is initialized.
InitializeCallReloading ==
    /\ pc = "idle"
    /\ probe.op = "initialize"
    /\ probe.args < MaxInits
    /\ Load
    /\ probe' = [probe EXCEPT
                    !.args = @ + 1,
                    !.done = TRUE,
                    !.result = IF initialized' THEN "loaded" ELSE "failed"]

\* initialize(), lines 47-72, with its outcome noted.
InitializeCall ==
    /\ pc = "idle"
    /\ probe.op = "initialize"
    /\ probe.args < MaxInits
    /\ IF initialized
       THEN /\ UNCHANGED <<initialized, surv, clf, circuit_defaults, qcache,
                           qcache_hits, rng, pc, req, enumerated, templates,
                           ti, sim, results, generated, returned, outcome,
                           calls>>
            /\ probe' = [probe EXCEPT !.args = @ + 1, !.done = TRUE,
                                      !.result = "skipped"]
       ELSE /\ Load
            /\ probe' = [probe EXCEPT
                            !.args = @ + 1,
                            !.done = TRUE,
                            !.result = IF initialized' THEN "loaded"
                                       ELSE "failed"]

LifecycleNotReady ==
    /\ calls < MaxCalls
    /\ \E r \in LifecycleRequests : NotReady(r)
    /\ UNCHANGED probe

LifecycleStart ==
    /\ calls < MaxCalls
    /\ \E r \in LifecycleRequests : StartCall(r)
    /\ UNCHANGED probe

NextLifecycle ==
    \/ InitializeCall
    \/ LifecycleNotReady
    \/ LifecycleStart
    \/ SimulateRun
    \/ SimulateFinish
    \/ PredictRank

SpecLifecycle == InitLifecycle /\ [][NextLifecycle]_vars

-----------------------------------------------------------------------------
(* The triple _quantiles_for computes from one bundle, lines 163-201, on   *)
(* circuits of twelve laps and more.                                       *)

\* total_laps, from 12 up.
TripleLaps == (MaxLaps + 7)..(MaxLaps + 10)

\* What predict_percentile may give, in half laps.
RawHalves == {8, 18, 21, 25, 30, 44}

TripleSpecs ==
    {Fitted(<<a, b, c>>) : a \in RawHalves, b \in RawHalves, c \in RawHalves}
    \cup {Failing(NoFallback),
          Failing([kind |-> "nan", q |-> <<0, 0, 0>>])}
    \cup {Failing([kind |-> "triple", q |-> <<a, a + 4, a + 16>>]) :
              a \in RawHalves}

InitTriple ==
    /\ Unloaded
    /\ \E sp \in TripleSpecs, laps \in TripleLaps :
          probe = [op |-> "model_triple",
                   args |-> [spec |-> sp, total_laps |-> laps],
                   done |-> FALSE, result |-> <<0, 0, 0>>]

CallModelTriple ==
    /\ probe.op = "model_triple"
    /\ ~probe.done
    /\ probe' = [probe EXCEPT
                    !.done = TRUE,
                    !.result = ModelTriple(probe.args.spec,
                                           probe.args.total_laps)]
    /\ UNCHANGED <<initialized, surv, clf, circuit_defaults, qcache,
                   qcache_hits, rng, pc, req, enumerated, templates, ti, sim,
                   results, generated, returned, outcome, calls>>

NextTriple == CallModelTriple

SpecTriple == InitTriple /\ [][NextTriple]_vars

-----------------------------------------------------------------------------
(* predict() on a circuit long enough for the runs of one template to      *)
(* differ by more than twice the margin of the early stop.                 *)

BreakLaps == 16 * MaxLaps

\* The long circuit, and a short one for the templates of two stops.
BreakCircuits == {LongLaps, BreakLaps}

\* One call, of the templates of one compound.
BreakRequests ==
    [circuit : {"Silverstone"}, track_temp : {30}, air_temp : {25},
     compounds : {<<"SOFT">>, <<"MEDIUM">>}, max_stops : {1, 2},
     fia_rule : {FALSE}, top_k : {2}]

InitBreak ==
    /\ \E laps \in BreakCircuits : Ready(SurvAll, ClfFitted, laps)
    /\ probe = NoProbe

\* Two stops are asked for on the short circuit only.
PredictBreak ==
    /\ calls = 0
    /\ \E r \in BreakRequests :
          /\ \/ r.max_stops = 1
             \/ GetCircuitParams(circuit_defaults, r.circuit).total_laps
                  <= LongLaps
          /\ StartCall(r)
    /\ UNCHANGED probe

NextBreak ==
    \/ PredictBreak
    \/ SimulateRun
    \/ SimulateFinish
    \/ PredictRank

SpecBreak == InitBreak /\ [][NextBreak]_vars

-----------------------------------------------------------------------------
(* predict_strategy, strategy_router.py lines 36-71, under the event loop. *)
(* The handler is a coroutine: the loop runs it until it awaits or         *)
(* returns, and only then runs another.  probe.args is the queue of the    *)
(* loop's ready tasks, a task being a request not yet started or a         *)
(* handler parked at an await with its local variables;                    *)
(* probe.result.running is the task the loop ran last.                     *)

ServeRequests ==
    [circuit : {"Silverstone"}, track_temp : {30}, air_temp : {25},
     compounds : {<<"SOFT", "MEDIUM">>, <<"SOFT", "SOFT">>},
     max_stops : {1, 2}, fia_rule : {FALSE}, top_k : {2}]

NoLocals ==
    [pc |-> "idle", enumerated |-> <<>>, templates |-> <<>>, ti |-> 0,
     sim |-> SimStart, results |-> <<>>]

NewTask(n, r) == [id |-> n, kind |-> "new", r |-> r, locals |-> NoLocals]

InitServe ==
    /\ \E laps \in 1..MaxLaps : Ready(SurvAll, ClfFitted, laps)
    /\ \E r1, r2 \in ServeRequests :
          probe = [op |-> "serve",
                   args |-> <<NewTask(1, r1), NewTask(2, r2)>>,
                   done |-> FALSE,
                   result |-> [running |-> 0]]

\* A handler that awaits between two templates of predict().
SuspendsBetweenTemplates == pc = "sim" /\ sim = SimStart

\* The running handler is at an await: the body of predict_strategy has
\* none, and predict() is an ordinary function.
CanSuspend == FALSE

\* The loop takes the next ready task: when no handler is in predict(),
\* the head of the queue starts or resumes; a handler at an await goes to
\* the end of the queue.
Dispatch ==
    /\ probe.op = "serve"
    /\ IF pc # "idle"
       THEN /\ CanSuspend
            /\ probe' = [probe EXCEPT
                            !.args = Append(@,
                                [id |-> probe.result.running,
                                 kind |-> "parked",
                                 r |-> req,
                                 locals |-> [pc |-> pc,
                                             enumerated |-> enumerated,
                                             templates |-> templates,
                                             ti |-> ti,
                                             sim |-> sim,
                                             results |-> results]]),
                            !.result.running = 0]
            /\ pc' = "idle"
            /\ UNCHANGED <<initialized, surv, clf, circuit_defaults, qcache,
                           qcache_hits, rng, req, enumerated, templates, ti,
                           sim, results, generated, returned, outcome, calls>>
       ELSE /\ probe.args # <<>>
            /\ LET t == Head(probe.args)
               IN /\ probe' = [probe EXCEPT !.args = Tail(@),
                                            !.done = TRUE,
                                            !.result.running = t.id]
                  /\ IF t.kind = "new"
                     THEN StartCall(t.r)
                     ELSE /\ pc' = t.locals.pc
                          /\ req' = t.r
                          /\ enumerated' = t.locals.enumerated
                          /\ templates' = t.locals.templates
                          /\ ti' = t.locals.ti
                          /\ sim' = t.locals.sim
                          /\ results' = t.locals.results
                          /\ UNCHANGED <<initialized, surv, clf,
                                         circuit_defaults, qcache,
                                         qcache_hits, rng, generated,
                                         returned, outcome, calls>>

NextServe ==
    \/ Dispatch
    \/ SimulateRun
    \/ SimulateFinish
    \/ PredictRank

SpecServe == InitServe /\ [][NextServe]_vars

-----------------------------------------------------------------------------
(* Application startup, main.py lines 32-65, and the strategy route,       *)
(* strategy_router.py lines 37-74.  probe.args is how the download goes,   *)
(* probe.done that lifespan has reached its yield and the app serves,      *)
(* probe.result the status of the last strategy response (0 before it).    *)

\* The keys of the dictionary download_all_artifacts returns.
ArtifactKeys == {"model", "history_store", "feature_names"}

\* The parameters CachedRacePredictor.initialize accepts besides self.
RaceInitializeParams == {}

\* The keyword arguments lifespan passes to CachedRacePredictor.initialize
\* and the keys of paths it reads for them.
RaceInitializeCall ==
    [kwargs |-> {"model_path", "history_path", "features_path"},
     keys |-> {"model", "history_store", "feature_names"}]

\* The keys of paths lifespan reads for CachedStrategyPredictor.initialize.
StrategyInitializeKeys ==
    {"survival_models", "next_compound_clf", "circuit_pitloss"}

DownloadOutcomes == {"ok", "no_credentials", "download_fails"}

\* The try block of lifespan raises before initialize() of the strategy
\* predictor is called: ModelLoader() or the download raises, a key of
\* paths is missing (KeyError), or CachedRacePredictor.initialize rejects
\* its keyword arguments (TypeError).
RaisesBeforeStrategy(download) ==
    \/ download # "ok"
    \/ ~(RaceInitializeCall.keys \subseteq ArtifactKeys)
    \/ ~(RaceInitializeCall.kwargs \subseteq RaceInitializeParams)
    \/ ~(StrategyInitializeKeys \subseteq ArtifactKeys)

\* The status the strategy route answers with.
HttpStatus(o) ==
    CASE o = "ok" -> 200
      [] o = "not_ready" -> 503
      [] OTHER -> 500

InitStartup ==
    /\ Unloaded
    /\ \E d \in DownloadOutcomes :
          probe = [op |-> "lifespan", args |-> d, done |-> FALSE, result |-> 0]

\* lifespan up to its yield: the except clause logs what the try block
\* raised and the app starts all the same.
Lifespan ==
    /\ probe.op = "lifespan"
    /\ ~probe.done
    /\ probe' = [probe EXCEPT !.done = TRUE]
    /\ IF RaisesBeforeStrategy(probe.args)
       THEN UNCHANGED <<initialized, surv, clf, circuit_defaults, qcache,
                        qcache_hits, rng, pc, req, enumerated, templates, ti,
                        sim, results, generated, returned, outcome, calls>>
       ELSE Load

\* predict_strategy on a predictor that is not initialized: predict raises
\* RuntimeError and the route answers 503.
ServeNotReady ==
    /\ probe.op = "lifespan"
    /\ probe.done
    /\ calls < MaxCalls
    /\ \E r \in Requests : NotReady(r)
    /\ probe' = [probe EXCEPT !.result = HttpStatus(outcome')]

NextStartup ==
    \/ Lifespan
    \/ ServeNotReady

SpecStartup == InitStartup /\ [][NextStartup]_vars

-----------------------------------------------------------------------------
(* Properties. *)

\* The laps a candidate's stints cover.
StintSum(c) ==
    SumSeq([k \in 1..Len(c.stints) |-> c.stints[k][3] - c.stints[k][2]])

\* a = b as fractions.
FracEq(a, b) == ~FracLess(a, b) /\ ~FracLess(b, a)

\* The position the stable descending sort by prob gives generated[j].
Rank(j) ==
    1 + Cardinality({i \in 1..Len(generated) :
                        \/ FracLess(generated[j].prob, generated[i].prob)
                        \/ i < j /\ FracEq(generated[i].prob,
                                           generated[j].prob)})

\* The sum of the numerators of the prob of a list of candidates.
NumSum(rs) == DySum([i \in 1..Len(rs) |-> rs[i].prob.num])

\* The number of places of the sequence s that hold x.
Count(x, s) == Cardinality({i \in 1..Len(s) : s[i] = x})

RECURSIVE ProdSeq(_)
ProdSeq(s) == IF s = <<>> THEN 1 ELSE Head(s) * ProdSeq(Tail(s))

\* A predict() call has enumerated its templates.
Enumerated == pc # "idle" \/ outcome = "ok"

\* C1: every candidate predict() returns has stints whose lengths sum to the
\* total_laps of the circuit.
C1_StintsSumToTotalLaps ==
    outcome = "ok" =>
        \A i \in 1..Len(returned) : StintSum(returned[i]) = Cp.total_laps

\* C2: every candidate predict() returns has one stint per template entry,
\* carrying that compound; the first stint starts at lap 1, each stint ends
\* where the next starts, the last ends at total_laps + 1, and every stint
\* has end > start.
C2_StintsContiguous ==
    outcome = "ok" =>
        \A i \in 1..Len(returned) :
            LET st == returned[i].stints
                tpl == returned[i].template
            IN /\ Len(st) = Len(tpl)
               /\ st[1][2] = 1
               /\ \A k \in 1..(Len(st) - 1) : st[k][3] = st[k + 1][2]
               /\ st[Len(st)][3] = Cp.total_laps + 1
               /\ \A k \in 1..Len(st) : st[k][3] > st[k][2] /\ st[k][1] = tpl[k]

\* C3: every triple _quantiles_for returns (each is the cache entry of its
\* key) is ordered, q25 <= q50 <= q75, with its three values inside
\* [5, max(6, total_laps - 1)].
C3_QuantilesOrderedAndCapped ==
    \A key \in DOMAIN qcache :
        LET q == qcache[key]
            hi == IF key[6] - 1 > 6 THEN key[6] - 1 ELSE 6
        IN /\ q[1] <= q[2] /\ q[2] <= q[3]
           /\ \A j \in 1..3 : 5 <= q[j] /\ q[j] <= hi

\* C4: a predict() call with fia_rule=True returns only candidates whose
\* template holds at least 2 distinct compounds.
C4_FiaRuleTwoCompounds ==
    (outcome = "ok" /\ req.fia_rule) =>
        \A i \in 1..Len(returned) :
            Cardinality(Range(returned[i].template)) >= 2

\* A call with fia_rule=True that enumerated one-compound templates and
\* still returned candidates.
C4_Witness ==
    /\ outcome = "ok" /\ req.fia_rule
    /\ \E t \in Range(enumerated) : Cardinality(Range(t)) = 1
    /\ Len(returned) >= 2

\* The number of candidates results[:top_k] keeps of n.
Kept(n, top_k) == IF top_k >= 0 THEN Min(top_k, n) ELSE Max(0, n + top_k)

\* C5 (amended): predict() returns the candidates sorted by prob in
\* non-increasing order, ties in generation order, and cut by the slice
\* results[:top_k]: the first min(top_k, n) entries of the sorted list of
\* the n generated candidates when top_k >= 0, and all but its last -top_k
\* entries when top_k < 0; each has expected_total_race_time > 0.
C5_SortedThenSliced ==
    outcome = "ok" =>
        LET m == Kept(Len(generated), req.top_k)
        IN /\ Len(returned) = m
           /\ \A j \in 1..Len(generated) :
                 Rank(j) <= m => returned[Rank(j)] = generated[j]
           /\ \A i \in 1..(m - 1) :
                 ~FracLess(returned[i].prob, returned[i + 1].prob)
           /\ \A i \in 1..m : returned[i].expected_total_race_time > 0

\* A call with top_k = -1 whose candidates were not generated in sorted
\* order and that returned all but the last of the sorted list.
C5_Witness ==
    /\ outcome = "ok" /\ req.top_k = -1
    /\ Len(generated) >= 3
    /\ Len(returned) = Len(generated) - 1
    /\ \E i, j \in 1..Len(generated) :
          i < j /\ FracLess(generated[i].prob, generated[j].prob)

\* C5 as stated: the result is sorted, has at most top_k elements and is the
\* first top_k entries of the sorted list of the generated candidates.
C5_AtMostTopK ==
    outcome = "ok" =>
        /\ Len(returned) <= req.top_k
        /\ \A j \in 1..Len(generated) :
              Rank(j) <= req.top_k =>
                  Rank(j) <= Len(returned) /\ returned[Rank(j)] = generated[j]
        /\ \A i \in 1..(Len(returned) - 1) :
              ~FracLess(returned[i].prob, returned[i + 1].prob)
        /\ \A i \in 1..Len(returned) :
              returned[i].expected_total_race_time > 0

\* The sequences of length n over the entries of compounds.
SequencesOver(compounds, n) == [1..n -> Range(compounds)]

\* C6 (amended): every enumerated template, and every returned candidate's
\* template, has length in 2..max_stops+1 and uses only compounds of the
\* list; no template of length 1 is enumerated; the enumeration holds one
\* template per sequence of positions of the list, so a sequence of
\* compounds occurs as often as the product of the numbers of times its
\* entries occur in the list: exactly once when the list has no repeats.
C6_EnumerationByPosition ==
    Enumerated =>
        /\ \A t \in Range(enumerated) :
              /\ Len(t) \in 2..(req.max_stops + 1)
              /\ Len(t) # 1
              /\ Range(t) \subseteq Range(req.compounds)
        /\ \A n \in 2..(req.max_stops + 1) :
              \A sq \in SequencesOver(req.compounds, n) :
                  Count(sq, enumerated) =
                      ProdSeq([i \in 1..n |-> Count(sq[i], req.compounds)])
        /\ \A i \in 1..Len(returned) :
              returned[i].template \in Range(enumerated)

\* A call with the list SOFT, SOFT and max_stops=2 that returned candidates:
\* SOFT, SOFT is enumerated 4 times and SOFT, SOFT, SOFT 8 times.
C6_Witness ==
    /\ outcome = "ok"
    /\ req.compounds = <<"SOFT", "SOFT">> /\ req.max_stops = 2
    /\ Count(<<"SOFT", "SOFT">>, enumerated) = 4
    /\ Count(<<"SOFT", "SOFT", "SOFT">>, enumerated) = 8
    /\ Len(returned) >= 1

\* C6 as stated: the enumeration holds every sequence of length
\* 2..max_stops+1 over the list exactly once, and nothing else.
C6_EachSequenceOnce ==
    Enumerated =>
        /\ \A t \in Range(enumerated) :
              /\ Len(t) \in 2..(req.max_stops + 1)
              /\ Range(t) \subseteq Range(req.compounds)
        /\ \A n \in 2..(req.max_stops + 1) :
              \A sq \in SequencesOver(req.compounds, n) :
                  Count(sq, enumerated) = 1
        /\ \A i \in 1..Len(returned) :
              returned[i].template \in Range(enumerated)

\* C7 (amended): with max_stops=0 the enumerator produces no template at
\* all (range(2, 2) is empty) and predict() returns the empty list; the
\* 2-stint templates over the list, and only they, are what max_stops=1
\* produces.
C7_NoStopsNoTemplates ==
    Enumerated =>
        /\ req.max_stops = 0 =>
              enumerated = <<>> /\ (outcome = "ok" => returned = <<>>)
        /\ req.max_stops = 1 =>
              /\ \A t \in Range(enumerated) : Len(t) = 2
              /\ SequencesOver(req.compounds, 2) \subseteq Range(enumerated)

\* A call with max_stops=0 and two compounds that returned nothing.
C7_Witness ==
    /\ outcome = "ok"
    /\ req.max_stops = 0 /\ req.compounds = <<"SOFT", "MEDIUM">>
    /\ enumerated = <<>> /\ returned = <<>>

\* C7 as stated: with max_stops=0 the enumerator produces exactly the
\* 2-stint templates over the list.
C7_NoStopsTwoStints ==
    (Enumerated /\ req.max_stops = 0) =>
        /\ \A t \in Range(enumerated) : Len(t) = 2
        /\ SequencesOver(req.compounds, 2) \subseteq Range(enumerated)

\* C8: the probabilities line 378 gives a non-empty score vector are each in
\* [0, 1] and sum to 1; when the total score is zero each is 1/n.
C8_ProbsSumToOne ==
    (probe.op = "probs" /\ probe.done) =>
        LET score == probe.args
            p == probe.result
            n == Len(score)
            uniform == [num |-> {0}, den |-> DyNat(n)]
        IN /\ Len(p) = n
           /\ \A i \in 1..n :
                 /\ ~DyLess(p[i].num, {})
                 /\ DyLess({}, p[i].den)
                 /\ ~DyLess(p[i].den, p[i].num)
                 /\ p[i].den = p[1].den
           /\ DySum([i \in 1..n |-> p[i].num]) = p[1].den
           /\ DySum(score) = {} => \A i \in 1..n : FracEq(p[i], uniform)

\* Three scores, not all equal, normalised.
C8_Witness ==
    /\ probe.op = "probs" /\ probe.done
    /\ Len(probe.args) = 3
    /\ \E i, j \in 1..3 : FracLess(probe.result[i], probe.result[j])
    /\ \E i \in 1..3 : probe.args[i] = {}

\* Three scores, all zero, given 1/3 each.
C8_ZeroTotal ==
    /\ probe.op = "probs" /\ probe.done
    /\ Len(probe.args) = 3 /\ DySum(probe.args) = {}
    /\ \A i \in 1..3 : probe.result[i] = [num |-> {0}, den |-> {-1, 0}]

\* C9: truncation does not renormalise.  The generated candidates of a call
\* have probabilities over one denominator that sum to 1; each returned
\* candidate is a generated candidate with the prob it was given; so the
\* returned probabilities sum to at most 1, and to exactly 1 only when every
\* candidate cut off has prob 0.
C9_TruncationKeepsProbs ==
    (outcome = "ok" /\ generated # <<>>) =>
        LET den == generated[1].prob.den
            m == Len(returned)
        IN /\ \A j \in 1..Len(generated) : generated[j].prob.den = den
           /\ NumSum(generated) = den
           /\ \A j \in 1..Len(generated) :
                 Rank(j) <= m => returned[Rank(j)].prob = generated[j].prob
           /\ m <= Len(generated)
           /\ ~DyLess(den, NumSum(returned))
           /\ NumSum(returned) = den =>
                 \A j \in 1..Len(generated) :
                     Rank(j) > m => generated[j].prob.num = {}

\* A call that cut candidates off and returned probabilities summing to less
\* than 1.
C9_Witness ==
    /\ outcome = "ok"
    /\ Len(returned) >= 2 /\ Len(returned) < Len(generated)
    /\ DyLess(NumSum(returned), generated[1].prob.den)

\* C10: _durability_ok returns (q50 <= max_len and q75 - q25 <= max_len),
\* max_len being the per-circuit override where the circuit has one for the
\* compound (Monaco 30, 40, 55; Zandvoort 28, 38, 54), else the generic
\* limit (SOFT 20, MEDIUM 32, HARD 48), else 60.
C10_OverrideBeforeGeneric ==
    (probe.op = "_durability_ok" /\ probe.done) =>
        LET c == probe.args[1]
            q25 == probe.args[2]
            q50 == probe.args[3]
            q75 == probe.args[4]
            circuit == probe.args[5]
            max_len ==
                CASE circuit = "Monaco" /\ c = "SOFT" -> 30
                  [] circuit = "Monaco" /\ c = "MEDIUM" -> 40
                  [] circuit = "Monaco" /\ c = "HARD" -> 55
                  [] circuit = "Zandvoort" /\ c = "SOFT" -> 28
                  [] circuit = "Zandvoort" /\ c = "MEDIUM" -> 38
                  [] circuit = "Zandvoort" /\ c = "HARD" -> 54
                  [] circuit \notin {"Monaco", "Zandvoort"} /\ c = "SOFT" -> 20
                  [] circuit \notin {"Monaco", "Zandvoort"} /\ c = "MEDIUM" -> 32
                  [] circuit \notin {"Monaco", "Zandvoort"} /\ c = "HARD" -> 48
                  [] OTHER -> 60
        IN probe.result = (q50 <= max_len /\ q75 - q25 <= max_len)

\* SOFT at Monaco with 20 < q50 <= 30 and q75 - q25 <= 30, accepted.
C10_Witness ==
    /\ probe.op = "_durability_ok" /\ probe.done
    /\ probe.args[1] = "SOFT" /\ probe.args[5] = "Monaco"
    /\ probe.args[3] > 20 /\ probe.args[3] <= 30
    /\ probe.args[4] - probe.args[2] <= 30
    /\ probe.result = TRUE

-----------------------------------------------------------------------------
(* The durability gate of predict(). *)

\* The triple _quantiles_for has for the compound at stint index k in the
\* call in progress.
TripleAt(compound, k) ==
    QuantilesFor(surv, [cache |-> qcache, hits |-> qcache_hits], compound, k,
                 req.circuit, req.track_temp, req.air_temp, Cp.total_laps).q

\* The triple of the compound at index k is within the limit of the compound
\* at the circuit of the call.
PassesGate(compound, k) ==
    LET q == TripleAt(compound, k)
        max_len == MaxLenFor(compound, req.circuit)
    IN q[2] <= max_len /\ q[3] - q[1] <= max_len

\* Every stint of the template but the last passes the gate.
GatedNonFinal(t) == \A k \in 1..(Len(t) - 1) : PassesGate(t[k], k)

\* The templates left by the FIA filter in the call in progress.
Filtered == FiaFilter(enumerated, req.fia_rule)

\* C11: a template is kept for simulation exactly when each of its stints
\* but the last has a quantile triple with q50 <= max_len and
\* q75 - q25 <= max_len; the compound of the last stint is not gated.  So
\* every returned candidate passes the gate at every stint but the last.
C11_GateOnNonFinalStints ==
    /\ pc \in {"sim", "rank"} => templates = SelectSeq(Filtered, GatedNonFinal)
    /\ outcome = "ok" =>
           \A i \in 1..Len(returned) : GatedNonFinal(returned[i].template)

\* A returned candidate whose last compound would fail the gate at its
\* index, in a call that lost another template to the gate.
C11_Witness ==
    /\ outcome = "ok"
    /\ \E i \in 1..Len(returned) :
          LET t == returned[i].template
          IN ~PassesGate(t[Len(t)], Len(t))
    /\ \E j \in 1..Len(Filtered) : ~GatedNonFinal(Filtered[j])

-----------------------------------------------------------------------------
(* predict() before initialize(). *)

\* C12: while the predictor is not initialized, a predict() call ends with
\* the not-ready error, which the route answers with 503, and nothing else
\* happens: no template is enumerated
\* or simulated, no random number is drawn, and the quantile cache and its
\* hit counters stay empty.
C12_NotReadyNoWork ==
    ~initialized =>
        /\ pc = "idle"
        /\ calls > 0 => outcome = "not_ready" /\ HttpStatus(outcome) = 503
        /\ outcome \in {"none", "not_ready"}
        /\ enumerated = <<>> /\ templates = <<>> /\ results = <<>>
        /\ generated = <<>> /\ returned = <<>>
        /\ sim = SimStart /\ rng = 0
        /\ qcache = <<>> /\ qcache_hits = <<>>

\* A call refused after an initialize() that loaded the survival bundles
\* and then failed.
C12_Witness ==
    /\ ~initialized
    /\ surv # <<>>
    /\ outcome = "not_ready"
    /\ req.compounds # <<>> /\ req.max_stops > 0

-----------------------------------------------------------------------------
(* Calls that end without a candidate. *)

\* C16: a predict() call on an initialized predictor returns; when no
\* template gave a candidate it returns the empty list.  A template whose
\* simulation has no valid run adds nothing and leaves the candidates of
\* the templates before it as they are.
C16_EmptyResultNoError ==
    [][/\ pc = "rank" =>
            /\ outcome' = "ok"
            /\ results = <<>> => returned' = <<>>
       /\ pc = "sim" /\ ti' # ti =>
            /\ sim.times = <<>> => results' = results
            /\ Len(results') >= Len(results)
            /\ SubSeq(results', 1, Len(results)) = results]_vars

\* A call whose templates were all gated out, answered by the empty list.
C16_Witness ==
    /\ outcome = "ok"
    /\ initialized
    /\ enumerated # <<>>
    /\ generated = <<>>
    /\ returned = <<>>

\* A call that returned candidates of two stints while its templates of
\* three stints had no valid run.
C16_DroppedTemplate ==
    /\ outcome = "ok"
    /\ \E j \in 1..Len(enumerated) :
          /\ Len(enumerated[j]) = 3
          /\ GatedNonFinal(enumerated[j])
    /\ generated # <<>>
    /\ \A i \in 1..Len(generated) : Len(generated[i].template) = 2

-----------------------------------------------------------------------------
(* The stint lengths of the runs _simulate_template counts. *)

\* The stint lengths behind a row of pit laps.
StintLengths(row, total_laps) ==
    [k \in 1..(Len(row) + 1) |->
        IF k = 1 THEN row[1]
        ELSE IF k <= Len(row) THEN row[k] - row[k - 1]
        ELSE total_laps - row[Len(row)]]

\* C20: in every run _simulate_template counts as valid, every stint is at
\* least one lap long (and the stints sum to total_laps).
C20_CountedStintsPositive ==
    \A r \in 1..Len(sim.pit_laps_all) :
        LET row == sim.pit_laps_all[r]
        IN row # <<>> =>
              \A k \in 1..(Len(row) + 1) :
                  StintLengths(row, Cp.total_laps)[k] >= 1

-----------------------------------------------------------------------------
(* Startup. *)

\* C13: when the artifact download succeeds, every strategy request the app
\* serves finds the strategy predictor initialized and is not answered with
\* the not-ready condition.
C13_StartupInitializesStrategy ==
    probe.op = "lifespan" /\ probe.args = "ok" /\ probe.done =>
        /\ initialized
        /\ outcome # "not_ready"
        /\ probe.result # 503

-----------------------------------------------------------------------------
(* Circuit parameters. *)

\* C15: for a circuit the metadata does not list, _get_circuit_params
\* returns total_laps 60, pit_loss 20.0 s and base_pace_s 100.0 s; for
\* every circuit, listed or not, abrasion is 0.5.
C15_UnknownCircuitDefaults ==
    probe.op = "_get_circuit_params" /\ probe.done =>
        /\ probe.args[2] \notin DOMAIN probe.args[1] =>
               /\ probe.result.total_laps = 60
               /\ probe.result.pit_loss = 20000
               /\ probe.result.base_pace_s = 100000
        /\ probe.result.abrasion = 500

\* The parameters of a circuit missing from a metadata file that lists
\* another one with other values.
C15_Witness ==
    /\ probe.op = "_get_circuit_params" /\ probe.done
    /\ probe.args[1] # <<>>
    /\ probe.args[2] \notin DOMAIN probe.args[1]
    /\ \E n \in DOMAIN probe.args[1] : probe.args[1][n].total_laps # 60
    /\ probe.result.total_laps = 60

-----------------------------------------------------------------------------
(* The quantile cache. *)

\* The hit count of key k in the counters h.
HitsOf(h, k) == IF k \in DOMAIN h THEN h[k] ELSE 0

\* C17: a lookup of a key the cache holds returns the stored triple, leaves
\* the cache as it is and adds exactly 1 to the hit count of that key; a
\* lookup of any other key adds exactly that key and leaves the hit counts
\* as they are.  So no key is ever removed and no value overwritten.
C17_CacheOnlyGrows ==
    [][LET key == probe'.args[Len(probe'.args)]
       IN /\ \A k \in DOMAIN qcache :
                k \in DOMAIN qcache' /\ qcache'[k] = qcache[k]
          /\ IF key \in DOMAIN qcache
             THEN /\ qcache' = qcache
                  /\ probe'.result = qcache[key]
                  /\ HitsOf(qcache_hits', key) = HitsOf(qcache_hits, key) + 1
                  /\ \A k \in (DOMAIN qcache_hits \cup DOMAIN qcache_hits')
                                \ {key} :
                         HitsOf(qcache_hits', k) = HitsOf(qcache_hits, k)
             ELSE /\ DOMAIN qcache' = DOMAIN qcache \cup {key}
                  /\ probe'.result = qcache'[key]
                  /\ qcache_hits' = qcache_hits]_vars

\* A cache of two keys, one of them hit twice and the other never.
C17_Witness ==
    /\ probe.op = "_quantiles_for"
    /\ Cardinality(DOMAIN qcache) = 2
    /\ \E k \in DOMAIN qcache : HitsOf(qcache_hits, k) = 2
    /\ \E k \in DOMAIN qcache : k \notin DOMAIN qcache_hits

\* C17 across predict() calls: once the predictor is initialized, no step
\* of a call removes a key of the cache, changes its triple or lowers a hit
\* count.
C17_CacheGrowsAcrossCalls ==
    [][initialized =>
          /\ \A k \in DOMAIN qcache :
                k \in DOMAIN qcache' /\ qcache'[k] = qcache[k]
          /\ \A k \in DOMAIN qcache_hits :
                HitsOf(qcache_hits', k) >= qcache_hits[k]
          /\ DOMAIN qcache_hits' \subseteq DOMAIN qcache']_vars

-----------------------------------------------------------------------------
(* The transition prior. *)

\* C18: the prior of a template of two stints or more is in (0, 1], that
\* is, the product of its factors is positive and at most 1; the prior of
\* a template of one stint is exactly 1e-4.
C18_PriorInUnitInterval ==
    probe.op = "_template_prior" /\ probe.done =>
        IF Len(probe.args[2]) >= 2
        THEN /\ probe.result.power # {}
             /\ ~DyLess({0}, probe.result.power)
        ELSE probe.result = [power |-> {LOG_FLOOR}, root |-> 1]

\* A^n
RECURSIVE DyPower(_, _)
DyPower(A, n) == IF n = 0 THEN {0} ELSE DyMul(A, DyPower(A, n - 1))

\* C18, the part that holds: the prior is positive, at most 1 + 1e-9, and
\* 1e-4 for a template of one stint.
C18_PriorPositive ==
    probe.op = "_template_prior" /\ probe.done =>
        IF Len(probe.args[2]) >= 2
        THEN /\ probe.result.power # {}
             /\ ~DyLess(DyPower(DyAdd({0}, LOG_EPS), probe.result.root),
                        probe.result.power)
        ELSE probe.result = [power |-> {LOG_FLOOR}, root |-> 1]

-----------------------------------------------------------------------------
(* Repeated calls. *)

-----------------------------------------------------------------------------
(* Pit windows. *)

\* C19: every candidate predict() returns has one stint per template entry
\* and one pit window per stop, that is one window less than it has stints,
\* and every window has p25 <= p50 <= p75.
C19_WindowsPerStop ==
    outcome = "ok" =>
        \A i \in 1..Len(returned) :
            LET c == returned[i]
            IN /\ Len(c.stints) = Len(c.template)
               /\ Len(c.windows) = Len(c.stints) - 1
               /\ \A k \in 1..Len(c.windows) :
                     /\ c.windows[k][1] <= c.windows[k][2]
                     /\ c.windows[k][2] <= c.windows[k][3]

\* A returned candidate of two stops whose runs pitted on different laps,
\* so that a window has p25 < p75.
C19_Witness ==
    /\ outcome = "ok"
    /\ \E i \in 1..Len(returned) :
          /\ Len(returned[i].windows) = 2
          /\ \E k \in 1..2 :
                returned[i].windows[k][1] < returned[i].windows[k][3]

-----------------------------------------------------------------------------
(* Early stopping. *)

\* The mean of the times is more than 8 s above the smallest of them.
MeanAboveBest(times) ==
    \E m \in Range(times) :
        /\ \A x \in Range(times) : m <= x
        /\ SumSeq(times) > Len(times) * (m + 8000)

\* C21: the loop ends early exactly when the number of completed runs has
\* reached sims * 0.18 rounded down (46 of 260) and the mean of the
\* recorded times is more than 8 s above the best of them.
C21_EarlyStopThreshold ==
    probe.op = "early_stop" /\ probe.done =>
        (probe.result <=>
            /\ 100 * (probe.args.completed + 1) > 18 * probe.args.sims
            /\ MeanAboveBest(probe.args.times))

\* The loop of 260 runs ended after its 46th.
C21_Witness ==
    /\ probe.op = "early_stop" /\ probe.done
    /\ probe.result
    /\ probe.args.sims = 260
    /\ probe.args.completed = 46

\* C21 as stated: the loop does not end before sims * 0.18 runs have
\* completed (46.8 of 260, that is 47), and ends only with the mean more
\* than 8 s above the best.
C21_NotBeforeFraction ==
    probe.op = "early_stop" /\ probe.done /\ probe.result =>
        /\ 100 * probe.args.completed >= 18 * probe.args.sims
        /\ MeanAboveBest(probe.args.times)

-----------------------------------------------------------------------------
(* Pit cuts. *)

\* p25 of a window brought to at least lap 2 and, where that leaves room,
\* to at most total_laps - 1.
ClampedP25(w, total_laps) ==
    IF w[1] < 2 \/ total_laps - 1 < 2 THEN 2
    ELSE IF w[1] > total_laps - 1 THEN total_laps - 1
    ELSE w[1]

\* C22: for a template of N >= 2 stints _windows_to_stints returns the
\* empty list when it gets fewer than N-1 windows.  Otherwise stint i runs
\* from cut i-1 to cut i, with cut 0 = 1; cut i < N is the clamped p25 of
\* window i where that is above cut i-1 and cut i-1 + 1 where it is not;
\* cut N is total_laps + 1 under the same rule; so the cuts increase
\* strictly.
C22_CutsFromWindows ==
    probe.op = "_windows_to_stints" /\ probe.done =>
        LET t == probe.args[1]
            w == probe.args[2]
            laps == probe.args[3]
            n == Len(t)
            st == probe.result
        IN IF Len(w) < n - 1 THEN st = <<>>
           ELSE /\ Len(st) = n
                /\ st[1][2] = 1
                /\ \A i \in 1..n :
                      LET want == IF i < n THEN ClampedP25(w[i], laps)
                                  ELSE laps + 1
                      IN /\ st[i][1] = t[i]
                         /\ st[i][3] = IF want > st[i][2] THEN want
                                       ELSE st[i][2] + 1
                         /\ st[i][3] > st[i][2]
                         /\ i < n => st[i + 1][2] = st[i][3]

\* Three stints from two windows, the second of which had to be raised
\* above the first while the first was left as it was.
C22_Witness ==
    /\ probe.op = "_windows_to_stints" /\ probe.done
    /\ Len(probe.result) = 3
    /\ probe.result[1][3] = probe.args[2][1][1]
    /\ probe.args[2][2][1] < probe.args[2][1][1]
    /\ probe.args[2][1][1] # probe.args[2][1][2]
    /\ probe.result[2][3] = probe.result[1][3] + 1

-----------------------------------------------------------------------------
(* What predict() leaves alone. *)

\* C23: once initialize() has succeeded, no step of a predict() call
\* changes the survival bundles, the classifier or the circuit metadata,
\* and the predictor stays initialized; what a call changes of the
\* predictor is the quantile cache, its hit counters and the generator.
C23_PredictKeepsArtifacts ==
    [][initialized =>
          /\ surv' = surv
          /\ clf' = clf
          /\ circuit_defaults' = circuit_defaults
          /\ initialized']_vars

\* A call that has returned candidates after filling the cache, counting
\* hits and drawing from the generator.
C23_Witness ==
    /\ initialized
    /\ outcome = "ok"
    /\ returned # <<>>
    /\ qcache # <<>>
    /\ qcache_hits # <<>>
    /\ rng > 0

-----------------------------------------------------------------------------
(* The life of the one predictor. *)

\* C24: an initialize() on an initialized predictor is skipped: it loads
\* nothing and leaves the quantile cache, its hit counters and the
\* generator as they are.  An initialize() that fails leaves the predictor
\* uninitialized.  The predictor becomes initialized only in an
\* initialize() that loaded the bundles, the classifier and the metadata,
\* and once initialized it stays so.
C24_InitializedOnce ==
    [][/\ initialized => initialized'
       /\ probe'.args # probe.args /\ initialized =>
             /\ probe'.result = "skipped"
             /\ UNCHANGED <<surv, clf, circuit_defaults, qcache, qcache_hits,
                            rng>>
       /\ probe'.args # probe.args /\ probe'.result = "failed" =>
             ~initialized /\ ~initialized'
       /\ ~initialized /\ initialized' =>
             /\ probe'.args # probe.args /\ probe'.result = "loaded"
             /\ surv' \in SurvBundles
             /\ clf' \in Classifiers
             /\ circuit_defaults' # <<>>]_vars

\* An initialize() skipped after a predict() call that filled the cache
\* and drew from the generator, on a predictor whose first initialize()
\* had failed.
C24_Witness ==
    /\ probe.op = "initialize"
    /\ probe.args = 3
    /\ probe.result = "skipped"
    /\ initialized
    /\ qcache # <<>>
    /\ rng > 0

-----------------------------------------------------------------------------
(* The scoring of predict(), lines 371-378. *)

PriorOf(r) == TemplatePrior(clf, r.template)

\* C25: among the generated candidates of a call, of two with the same
\* prior the one with the smaller expected race time has a prob at least
\* as large, of two with the same expected race time the one with the
\* larger prior has a prob at least as large, and a candidate with the
\* minimum expected race time has time factor 1: its score is its prior
\* to the power ALPHA_HISTORICAL_PRIOR.
C25_ScoringMonotone ==
    outcome = "ok" =>
        \A i, j \in 1..Len(generated) :
            LET a == generated[i]
                b == generated[j]
            IN /\ /\ PriorOf(a) = PriorOf(b)
                  /\ a.expected_total_race_time <= b.expected_total_race_time
                  => ~FracLess(a.prob, b.prob)
               /\ /\ a.expected_total_race_time = b.expected_total_race_time
                  /\ PriorOf(a) <= PriorOf(b)
                  => ~FracLess(a.prob, b.prob)
               /\ (\A k \in 1..Len(generated) :
                      a.expected_total_race_time
                          <= generated[k].expected_total_race_time)
                  => a.prob.num = {ALPHA_HISTORICAL_PRIOR * PriorOf(a)}

\* Two candidates of equal prior, the faster with the strictly larger prob.
C25_Witness ==
    /\ outcome = "ok"
    /\ \E i, j \in 1..Len(generated) :
          /\ PriorOf(generated[i]) = PriorOf(generated[j])
          /\ generated[i].expected_total_race_time
                < generated[j].expected_total_race_time
          /\ FracLess(generated[j].prob, generated[i].prob)

\* Two candidates of equal time, the one of larger prior with the strictly
\* larger prob.
C25_EqualTimes ==
    /\ outcome = "ok"
    /\ \E i, j \in 1..Len(generated) :
          /\ PriorOf(generated[i]) < PriorOf(generated[j])
          /\ generated[i].expected_total_race_time
                = generated[j].expected_total_race_time
          /\ FracLess(generated[j].prob, generated[i].prob)

-----------------------------------------------------------------------------
(* The width of a triple. *)

TripleOrdered(q) == q[1] <= q[2] /\ q[2] <= q[3]

\* C26: on a circuit of 12 laps or more the triple computed from a bundle
\* is ordered, and q75 - q25 is 6 or more unless the widened window ends at
\* the upper cap: then q75 is the cap and q75 - q25 is 3 or more.
C26_WidenedWithinCap ==
    probe.op = "model_triple" /\ probe.done =>
        LET q == probe.result
        IN /\ TripleOrdered(q)
           /\ \/ q[3] - q[1] >= 6
              \/ q[3] = HiCap(probe.args.total_laps) /\ q[3] - q[1] >= 3

\* The fixed fallback (15, 22, 35) of a failed model without fallback_q,
\* capped to one value and widened against the upper cap.
C26_Witness ==
    /\ probe.op = "model_triple"
    /\ probe.done
    /\ probe.args.spec = Failing(NoFallback)
    /\ LET hi == HiCap(probe.args.total_laps)
       IN probe.result = <<hi - 3, hi - 1, hi>>

\* C26 as stated: every triple is ordered and at least 6 laps wide.
C26_AlwaysSixWide ==
    probe.op = "model_triple" /\ probe.done =>
        /\ TripleOrdered(probe.result)
        /\ probe.result[3] - probe.result[1] >= 6

-----------------------------------------------------------------------------
(* What _simulate_template aggregates. *)

\* The loop of _simulate_template is over.
LoopOver == pc = "sim" /\ (sim.stopped \/ sim.s = Sims)

\* C27: at the end of the loop of _simulate_template there are as many
\* rows of pit laps as there are times.
C27_RowsMatchTimes == LoopOver => Len(sim.pit_laps_all) = Len(sim.times)

\* A loop stopped early.
C27_StoppedEarly == LoopOver /\ sim.stopped

\* C28: a template of two or more stints with a counted run has, at the
\* end of the loop, one window per stop, stints from _windows_to_stints
\* and so a candidate.
C28_SimulatedIsCandidate ==
    LoopOver /\ sim.times # <<>> /\ Len(templates[ti]) >= 2 =>
        LET tpl == templates[ti]
            windows == Windows(sim.pit_laps_all)
        IN /\ Len(windows) = Len(tpl) - 1
           /\ WindowsToStints(tpl, windows, Cp.total_laps) # <<>>
           /\ Len(Candidate(tpl, sim, Cp.total_laps)) = 1

\* A template whose loop stopped early, with fewer rows of pit laps than
\* times.
C28_Witness ==
    /\ LoopOver
    /\ sim.stopped
    /\ Len(templates[ti]) >= 2
    /\ sim.pit_laps_all # <<>>
    /\ Len(sim.pit_laps_all) < Len(sim.times)

\* A template of three stints at the end of its loop, whose cut points
\* had to be forced apart.
C28_ForcedCuts ==
    /\ LoopOver
    /\ sim.times # <<>>
    /\ Len(templates[ti]) = 3
    /\ LET windows == Windows(sim.pit_laps_all)
       IN /\ Len(windows) = 2
          /\ Max(2, Min(Cp.total_laps - 1, windows[2][1]))
                <= Max(2, Min(Cp.total_laps - 1, windows[1][1]))

-----------------------------------------------------------------------------
(* Candidates of equal prob. *)

\* The place of a template in the enumeration of line 329-333.
EnumIndex(tpl) ==
    CHOOSE i \in 1..Len(enumerated) :
        /\ enumerated[i] = tpl
        /\ \A j \in 1..(i - 1) : enumerated[j] # tpl

\* C29: two returned candidates of exactly equal prob stand in the order
\* in which their templates were enumerated.
C29_TiesInEnumerationOrder ==
    outcome = "ok" =>
        \A a, b \in 1..Len(returned) :
            a < b /\ FracEq(returned[a].prob, returned[b].prob) =>
                EnumIndex(returned[a].template)
                    <= EnumIndex(returned[b].template)

\* Two returned candidates of equal prob and different templates.
C29_Witness ==
    /\ outcome = "ok"
    /\ \E a, b \in 1..Len(returned) :
          /\ a < b
          /\ FracEq(returned[a].prob, returned[b].prob)
          /\ EnumIndex(returned[a].template) < EnumIndex(returned[b].template)

-----------------------------------------------------------------------------
(* Requests under the event loop. *)

\* C30: the loop leaves a handler only when its predict() has returned:
\* the task it runs changes only while no call is in progress, no handler
\* waits in the queue in the middle of a call, and a step that draws from
\* the generator or touches the quantile cache is a step of the handler
\* that was started last.
C30_NoInterleaving ==
    [][probe.op = "serve" =>
         /\ probe'.result.running # probe.result.running => pc = "idle"
         /\ \A i \in 1..Len(probe'.args) : probe'.args[i].kind = "new"
         /\ <<qcache', qcache_hits', rng'>> # <<qcache, qcache_hits, rng>>
              => /\ probe'.result.running # 0
                 /\ req' = IF pc = "idle" THEN Head(probe.args).r ELSE req
                 /\ pc # "idle" => probe' = probe]_vars

\* The second request has returned, after hits on the entries the first
\* request put in the cache.
C30_Witness ==
    /\ probe.op = "serve"
    /\ probe.result.running = 2
    /\ probe.args = <<>>
    /\ outcome = "ok"
    /\ calls = 2
    /\ rng > 0
    /\ qcache_hits # <<>>

====
